---- MODULE Spec2Model ----
(***************************************************************************)
(* A model of res-regex (src/src/lib.rs, src/src/unicode.rs): the          *)
(* recursive-descent validator of ECMAScript regular expression literals.  *)
(*                                                                         *)
(* A character is a one-character string; a text (&str) is a sequence of   *)
(* characters.  Option<T> is a sequence of length 0 (None) or 1 (Some).    *)
(* Every parsing method `fn f(&mut self, ..) -> bool / Result<bool, Error>`*)
(* is an operator from the parser value to [r |-> returned bool,           *)
(* e |-> whether Err was returned, s |-> parser value afterwards]; a       *)
(* returned Err is also s.err = Some(error), and the `?` operator is the   *)
(* test Failed(..) that hands the value on.                                *)
(***************************************************************************)
EXTENDS Integers, Sequences, FiniteSets, TLC

VARIABLES
  js,       \* the literal handed to RegexParser::new
  parser,   \* Option<RegexParser>: the value new returned, as validate leaves it
  pc,       \* "new", "failed" (new returned Err), "ready" (new returned Ok),
            \* "panicked" (validate has panicked)
  result,   \* what the last call that returned has returned, or the panic
            \* that ended it
  history,  \* what each call of validate has returned, in order
  passes    \* the parser at the end of each pattern() of the last validate

vars == <<js, parser, pc, result, history, passes>>

----------------------------------------------------------------------------
(* `let x = e;`: what follows the binding is F *)

Bind(x, F(_)) == F(x)

----------------------------------------------------------------------------
(* Option<T> *)

None == <<>>

Some(x) == <<x>>

IsSome(o) == o # <<>>

Unwrap(o) == o[1]

UnwrapOr(o, d) == IF o = <<>> THEN d ELSE o[1]

----------------------------------------------------------------------------
(* char: the printable ASCII characters by code point, and one two-byte    *)
(* character.                                                              *)

\* U+0060 is written by name: the one-character string of it does not lex.
Grave == "<grave>"

Ascii ==
  << " ", "!", "\"", "#", "$", "%", "&", "'", "(", ")", "*", "+", ",", "-", ".", "/",
     "0", "1", "2", "3", "4", "5", "6", "7", "8", "9", ":", ";", "<", "=", ">", "?",
     "@", "A", "B", "C", "D", "E", "F", "G", "H", "I", "J", "K", "L", "M", "N", "O",
     "P", "Q", "R", "S", "T", "U", "V", "W", "X", "Y", "Z", "[", "\\", "]", "^", "_",
     Grave, "a", "b", "c", "d", "e", "f", "g", "h", "i", "j", "k", "l", "m", "n", "o",
     "p", "q", "r", "s", "t", "u", "v", "w", "x", "y", "z", "{", "|", "}", "~" >>

EAcute == "é"

Char == {Ascii[i] : i \in 1..Len(Ascii)} \cup {EAcute}

CodeTable ==
  [c \in Char |-> IF c = EAcute THEN 233
                  ELSE 31 + (CHOOSE i \in 1..Len(Ascii) : Ascii[i] = c)]

\* `ch as u32` / `ch.into()`
Code(c) == CodeTable[c]

\* char::len_utf8
len_utf8(c) ==
  IF Code(c) < 128 THEN 1
  ELSE IF Code(c) < 2048 THEN 2
  ELSE IF Code(c) < 65536 THEN 3 ELSE 4

\* `ch >= lo && ch <= hi`
Between(c, lo, hi) == Code(c) >= Code(lo) /\ Code(c) <= Code(hi)

\* char::to_digit(radix): None when ch is no digit of that radix
to_digit(c, radix) ==
  IF Between(c, "0", "9")
  THEN (IF Code(c) - 48 < radix THEN Some(Code(c) - 48) ELSE None)
  ELSE IF Between(c, "a", "z")
  THEN (IF Code(c) - 97 + 10 < radix THEN Some(Code(c) - 97 + 10) ELSE None)
  ELSE IF Between(c, "A", "Z")
  THEN (IF Code(c) - 65 + 10 < radix THEN Some(Code(c) - 65 + 10) ELSE None)
  ELSE None

\* char::is_digit(radix)
is_digit(c, radix) == IsSome(to_digit(c, radix))

\* str::len: the length of a text in bytes (one per character, and one more
\* for each byte a character has beyond its first)
str_len(s) ==
  Len(s) + Cardinality({i \in 1..Len(s) : len_utf8(s[i]) >= 2})
         + Cardinality({i \in 1..Len(s) : len_utf8(s[i]) >= 3})
         + Cardinality({i \in 1..Len(s) : len_utf8(s[i]) >= 4})

\* the number of characters of s that start before byte offset idx (idx is a
\* character boundary at every call of reset_to in lib.rs); in a text of
\* one-byte characters that is idx itself
CharsBefore(s, idx) ==
  IF str_len(s) = Len(s)
  THEN (IF idx < Len(s) THEN idx ELSE Len(s))
  ELSE Cardinality({k \in 1..Len(s) : str_len(SubSeq(s, 1, k - 1)) < idx})

\* &pattern[from..to] for two byte offsets
Slice(s, from, to) == SubSeq(s, CharsBefore(s, from) + 1, CharsBefore(s, to))

\* u32.  The integers of TLC are 32 bits wide and signed, so a u32 value v
\* is held as v below 2^31 and as v - 2^32 from 2^31 on (the i32 with the
\* same bits); ULt is the order of u32 on such values.
ULt(a, b) == IF (a < 0) = (b < 0) THEN a < b ELSE a >= 0

\* the u32 with halves hi, lo (each in 0..65535)
FromHalves(hi, lo) == IF hi >= 32768 THEN (hi - 65536) * 65536 + lo ELSE hi * 65536 + lo

\* u32 arithmetic `radix * acc + n` for radix <= 16 and n < radix: the value
\* modulo 2^32, and whether the exact value left the u32 range (a panic in a
\* build with overflow checks)
MulAddLo(radix, acc, n) == radix * (acc % 65536) + n

MulAddHi(radix, acc, n) ==
  radix * ((acc \div 65536) % 65536) + MulAddLo(radix, acc, n) \div 65536

MulAddU32(radix, acc, n) ==
  [ value |-> FromHalves(MulAddHi(radix, acc, n) % 65536,
                         MulAddLo(radix, acc, n) % 65536),
    overflow |-> MulAddHi(radix, acc, n) >= 65536 ]

----------------------------------------------------------------------------
(* Error, State, RegexParser *)

Error(idx, msg) == [idx |-> idx, msg |-> msg]

\* State::new and the parser built around it by RegexParser::new; `chars`
\* is the number of characters the Peekable<Chars> iterator has yielded, and
\* `overflowed` records that some u32 sum left the u32 range.
NewParser(pattern, u) ==
  [ pattern |-> pattern,
    chars |-> 0,
    pos |-> 0,
    len |-> str_len(pattern),
    last_int_value |-> None,
    last_string_value |-> None,
    last_assert_is_quant |-> FALSE,
    num_capturing_parens |-> 0,
    max_back_refs |-> 0,
    group_names |-> <<>>,
    back_ref_names |-> <<>>,
    n |-> u,
    u |-> u,
    overflowed |-> FALSE,
    err |-> None ]

\* reset without `self.group_names.clear()`: a faulty variant, which carries
\* the names of the first pass into the second
reset_keeping_names(self) ==
  [self EXCEPT !.chars = 0,
               !.pos = 0,
               !.last_int_value = None,
               !.last_string_value = None,
               !.num_capturing_parens = 0,
               !.max_back_refs = 0,
               !.back_ref_names = <<>>]

\* State::reset together with `self.chars = self.pattern.chars().peekable()`
reset(self) ==
  [self EXCEPT !.chars = 0,
               !.pos = 0,
               !.last_int_value = None,
               !.last_string_value = None,
               !.num_capturing_parens = 0,
               !.max_back_refs = 0,
               !.group_names = <<>>,
               !.back_ref_names = <<>>]

Ret(r, self) == [r |-> r, e |-> FALSE, s |-> self]

Fail(self, idx, msg) ==
  [r |-> FALSE, e |-> TRUE, s |-> [self EXCEPT !.err = Some(Error(idx, msg))]]

Failed(x) == x.e

\* self.chars.peek() / self.current()
current(self) ==
  IF self.chars < Len(self.pattern) THEN Some(self.pattern[self.chars + 1]) ELSE None

advance(self) ==
  IF self.chars < Len(self.pattern)
  THEN [self EXCEPT !.chars = self.chars + 1,
                    !.pos = self.pos + len_utf8(self.pattern[self.chars + 1])]
  ELSE self

\* reset_to without `self.chars = remaining.chars().peekable()`: a faulty
\* variant, which moves pos back and leaves the iterator where it is
reset_to_of_pos_only(self, idx) == [self EXCEPT !.pos = idx]

reset_to(self, idx) ==
  [self EXCEPT !.chars = CharsBefore(self.pattern, idx), !.pos = idx]

eat(self, ch) ==
  IF self.chars < Len(self.pattern) /\ self.pattern[self.chars + 1] = ch
  THEN Ret(TRUE, advance(self))
  ELSE Ret(FALSE, self)

Contains(v, x) == \E i \in 1..Len(v) : v[i] = x

\* `a || b`, `a? || b?`: b runs on what a left behind, only when a returned
\* Ok(false)
OrElse(x, F(_)) == IF x.r \/ x.e THEN x ELSE F(x.s)

\* `a && b`, `a? && b?`
AndThen(x, F(_)) == IF x.r THEN F(x.s) ELSE x

\* `let x = e?;`
Try(x, F(_)) == IF x.e THEN x ELSE F(x)

\* `self.state.last_int_value = Some(radix * acc + n)`
MulAdd(self, radix, acc, n) ==
  [self EXCEPT !.last_int_value = Some(MulAddU32(radix, acc, n).value),
               !.overflowed = self.overflowed \/ MulAddU32(radix, acc, n).overflow]

----------------------------------------------------------------------------
(* Character predicates *)

is_syntax_ch(ch) ==
  \/ ch = "$"
  \/ Between(ch, "(", "+")
  \/ ch = "."
  \/ ch = "?"
  \/ Between(ch, "[", "^")
  \/ Between(ch, "{", "}")

is_control_letter(ch) == Between(ch, "A", "Z") \/ Between(ch, "a", "z")

is_unicode_property_name_character(ch) == is_control_letter(ch) \/ ch = "_"

is_unicode_property_value_character(ch) ==
  is_unicode_property_name_character(ch) \/ is_digit(ch, 10)

is_character_class_escape(ch) == ch \in {"d", "D", "s", "S", "w", "W"}

\* `if let Some(ch) = self.chars.peek() { if test(*ch) ..`
NextIs(self, Test(_)) ==
  self.chars < Len(self.pattern) /\ Test(self.pattern[self.chars + 1])

\* the character under the cursor, where NextIs has shown there is one
Peeked(self) == self.pattern[self.chars + 1]

\* the places from the cursor on where a run of characters that pass the test
\* stops: a character that fails it, or the end of the pattern
Stops(self, Test(_)) ==
  {k \in (self.chars + 1)..(Len(self.pattern) + 1) :
     k > Len(self.pattern) \/ ~Test(self.pattern[k])}

\* how many characters from the cursor on pass the test, one after another
RunLength(self, Test(_)) ==
  (CHOOSE k \in Stops(self, Test) : \A j \in Stops(self, Test) : k <= j)
    - self.chars - 1

\* n calls of advance
advance_by(self, n) ==
  [self EXCEPT !.chars = @ + n,
               !.pos = @ + str_len(SubSeq(self.pattern, self.chars + 1, self.chars + n))]

\* `while let Some(ch) = self.chars.peek() { if test(*ch) { self.advance() }
\* else { break } }`
advance_while(self, Test(_)) == advance_by(self, RunLength(self, Test))

----------------------------------------------------------------------------
(* Digits *)

RECURSIVE eat_digits_loop(_, _)
eat_digits_loop(self, radix) ==
  IF NextIs(self, LAMBDA ch : is_digit(ch, radix))
  THEN eat_digits_loop(
         advance(MulAdd(self, radix, UnwrapOr(self.last_int_value, 0),
                        Unwrap(to_digit(Peeked(self), radix)))),
         radix)
  ELSE self

eat_digits(self, radix) ==
  Bind(eat_digits_loop(self, radix), LAMBDA after : Ret(after.pos # self.pos, after))

RECURSIVE eat_decimal_escape_loop(_, _)
\* the loop of eat_decimal_escape over its local last_int_value
eat_decimal_escape_loop(self, local) ==
  IF NextIs(self, LAMBDA ch : is_digit(ch, 10))
  THEN eat_decimal_escape_loop(
         advance([self EXCEPT !.overflowed =
                    @ \/ MulAddU32(10, local, Unwrap(to_digit(Peeked(self), 10))).overflow]),
         MulAddU32(10, local, Unwrap(to_digit(Peeked(self), 10))).value)
  ELSE [self EXCEPT !.last_int_value = Some(local)]

eat_decimal_escape(self) ==
  Bind(eat_decimal_escape_loop(self, 0), LAMBDA after :
    Ret(after.pos # self.pos, after))

\* eat_back_ref once eat_decimal_escape has returned true and left d
back_ref(d, start) ==
  IF d.last_int_value = None THEN Ret(TRUE, d)
  ELSE IF d.u
  THEN Ret(TRUE, IF ULt(d.max_back_refs, Unwrap(d.last_int_value))
                 THEN [d EXCEPT !.max_back_refs = Unwrap(d.last_int_value)]
                 ELSE d)
  ELSE IF ~ULt(d.num_capturing_parens, Unwrap(d.last_int_value)) THEN Ret(TRUE, d)
  ELSE Ret(FALSE, reset_to(d, start))

eat_back_ref(self) ==
  AndThen(eat_decimal_escape(self), LAMBDA d : back_ref(d, self.pos))

\* eat_digit returns Option<u32>: r is that option
eat_digit(self, radix) ==
  IF NextIs(self, LAMBDA ch : is_digit(ch, radix))
  THEN Ret(to_digit(Peeked(self), radix), advance(self))
  ELSE Ret(None, self)

RECURSIVE eat_fixed_hex_digits_loop(_, _, _)
eat_fixed_hex_digits_loop(self, left, start) ==
  IF left = 0 THEN Ret(TRUE, self)
  ELSE Bind(eat_digit(self, 16), LAMBDA d :
         IF IsSome(d.r)
         THEN eat_fixed_hex_digits_loop(
                MulAdd(d.s, 16, UnwrapOr(d.s.last_int_value, 0), Unwrap(d.r)),
                left - 1, start)
         ELSE Ret(FALSE, reset_to(d.s, start)))

eat_fixed_hex_digits(self, len) ==
  eat_fixed_hex_digits_loop([self EXCEPT !.last_int_value = Some(0)], len, self.pos)

SetInt(self, n) == [self EXCEPT !.last_int_value = Some(n)]

eat_legacy_octal_escape_sequence(self) ==
  Bind(eat_digit(self, 8), LAMBDA d1 :
    IF d1.r = None THEN Ret(FALSE, d1.s)
    ELSE Bind(eat_digit(d1.s, 8), LAMBDA d2 :
      IF d2.r = None THEN Ret(TRUE, SetInt(d2.s, Unwrap(d1.r)))
      ELSE IF Unwrap(d1.r) <= 3
      THEN Bind(eat_digit(d2.s, 8), LAMBDA d3 :
             IF IsSome(d3.r)
             THEN Ret(TRUE, SetInt(d3.s, Unwrap(d1.r) * 64 + Unwrap(d2.r) * 8
                                           + Unwrap(d3.r)))
             ELSE Ret(TRUE, SetInt(d3.s, Unwrap(d1.r) * 8 + Unwrap(d2.r))))
      ELSE Ret(TRUE, SetInt(d2.s, Unwrap(d1.r) * 8 + Unwrap(d2.r)))))

----------------------------------------------------------------------------
(* Unicode property tables and their validator (unicode.rs).  The tables  *)
(* are sorted excerpts of General_Category, Script and Binary Property.    *)

GC == << <<"L">>, <<"L", "u">>, <<"N">>, <<"N", "d">> >>

SCRIPT == << <<"G", "r", "e", "k">>, <<"L", "a", "t", "n">> >>

BINARY == << <<"A", "H", "e", "x">>, <<"A", "n", "y">> >>

RECURSIVE str_cmp(_, _)
\* Ord for str: -1, 0 or 1 as a is less than, equal to or greater than b
str_cmp(a, b) ==
  IF a = <<>> THEN (IF b = <<>> THEN 0 ELSE -1)
  ELSE IF b = <<>> THEN 1
  ELSE IF Code(Head(a)) < Code(Head(b)) THEN -1
  ELSE IF Code(Head(a)) > Code(Head(b)) THEN 1
  ELSE str_cmp(Tail(a), Tail(b))

RECURSIVE binary_search_loop(_, _, _, _)
\* over the 0-based half-open range left..right of table
binary_search_loop(table, x, left, right) ==
  IF left >= right THEN FALSE
  ELSE Bind(left + (right - left) \div 2, LAMBDA mid :
       Bind(str_cmp(table[mid + 1], x), LAMBDA cmp :
         IF cmp < 0 THEN binary_search_loop(table, x, mid + 1, right)
         ELSE IF cmp > 0 THEN binary_search_loop(table, x, left, mid)
         ELSE TRUE))

\* table.binary_search(&x).is_ok()
binary_search(table, x) == binary_search_loop(table, x, 0, Len(table))

validate_name_or_value(name) ==
  IF binary_search(GC, name) THEN TRUE
  ELSE IF binary_search(BINARY, name) THEN TRUE
  ELSE FALSE

\* validate_name without its second branch: a faulty variant, which knows
\* the names of General_Category only
validate_name_of_category_only(name) ==
  IF name = <<"G", "e", "n", "e", "r", "a", "l", "_",
              "C", "a", "t", "e", "g", "o", "r", "y">> \/ name = <<"g", "c">>
  THEN Some(GC)
  ELSE None

\* Option<&[&str]>
validate_name(name) ==
  IF name = <<"G", "e", "n", "e", "r", "a", "l", "_",
              "C", "a", "t", "e", "g", "o", "r", "y">> \/ name = <<"g", "c">>
  THEN Some(GC)
  ELSE IF \/ name = <<"S", "c", "r", "i", "p", "t">>
          \/ name = <<"s", "c">>
          \/ name = <<"S", "c", "r", "i", "p", "t", "_",
                      "E", "x", "t", "e", "n", "s", "i", "o", "n", "s">>
          \/ name = <<"s", "c", "x">>
  THEN Some(SCRIPT)
  ELSE None

validate_name_and_value(name, value) ==
  Bind(validate_name(name), LAMBDA set :
    IF IsSome(set) THEN binary_search(Unwrap(set), value) ELSE FALSE)

----------------------------------------------------------------------------
(* Character class escapes and property escapes *)

\* Result<(), Error>: r is TRUE for Ok(())
validate_unicode_property_name_and_value(self, name, value) ==
  IF IsSome(name) /\ IsSome(value)
  THEN IF ~validate_name_and_value(Unwrap(name), Unwrap(value))
       THEN Fail(self, self.pos, "Unable to validate unicode property name and value")
       ELSE Ret(TRUE, self)
  ELSE Fail(self, self.pos, "Invalid unicode property name & value provided")

validate_unicode_property_name_or_value(self, name_or_value) ==
  IF IsSome(name_or_value)
  THEN IF ~validate_name_or_value(Unwrap(name_or_value))
       THEN Fail(self, self.pos, "Unable to validate unicode property name or value")
       ELSE Ret(TRUE, self)
  ELSE Fail(self, self.pos, "Invalid unicoe property name or value")

eat_unicode_property_name_loop(self) ==
  advance_while(self, is_unicode_property_name_character)

eat_unicode_property_value_loop(self) ==
  advance_while(self, is_unicode_property_value_character)

\* `if self.state.pos != start { last_string_value = self.pattern.get(start..pos) }`,
\* then `self.state.last_string_value.is_some()`
SliceFrom(after, start) ==
  Bind(IF after.pos # start
       THEN [after EXCEPT !.last_string_value = Some(Slice(after.pattern, start, after.pos))]
       ELSE after,
       LAMBDA out : Ret(IsSome(out.last_string_value), out))

eat_unicode_property_name(self) ==
  SliceFrom(eat_unicode_property_name_loop([self EXCEPT !.last_string_value = None]),
            self.pos)

eat_unicode_property_value(self) ==
  SliceFrom(eat_unicode_property_value_loop(self), self.pos)

eat_lone_unicode_property_name_or_value(self) == eat_unicode_property_value(self)

\* eat_unicode_property_value_expression from `self.reset_to(start)` on
lone_property(self, start) ==
  Bind(eat_lone_unicode_property_name_or_value(reset_to(self, start)), LAMBDA lone :
    IF lone.r
    THEN validate_unicode_property_name_or_value(lone.s, lone.s.last_string_value)
    ELSE Ret(FALSE, lone.s))

eat_unicode_property_value_expression(self) ==
  Bind(AndThen(eat_unicode_property_name(self), LAMBDA s : eat(s, "=")), LAMBDA nm :
    IF nm.r
    THEN Bind(eat_unicode_property_value(nm.s), LAMBDA val :
           IF val.r
           THEN validate_unicode_property_name_and_value(
                  val.s, nm.s.last_string_value, val.s.last_string_value)
           ELSE lone_property(val.s, self.pos))
    ELSE lone_property(nm.s, self.pos))

eat_character_class_escape(self) ==
  IF NextIs(self, is_character_class_escape)
  THEN Ret(TRUE, advance([self EXCEPT !.last_int_value = None]))
  ELSE IF self.u /\ NextIs(self, LAMBDA ch : ch = "P" \/ ch = "p")
  THEN Bind(AndThen(AndThen(eat(advance([self EXCEPT !.last_int_value = None]), "{"),
                            eat_unicode_property_value_expression),
                    LAMBDA s : eat(s, "}")),
            LAMBDA body : IF Failed(body) \/ body.r THEN body
                          ELSE Fail(body.s, body.s.pos, "Invalid property name"))
  ELSE Ret(FALSE, self)

----------------------------------------------------------------------------
(* Character escapes *)

eat_control_escape(self) ==
  IF NextIs(self, LAMBDA ch : ch \in {"t", "n", "v", "f", "r"})
  THEN Ret(TRUE, advance(SetInt(self, Code(Peeked(self)))))
  ELSE Ret(FALSE, self)

eat_control_letter(self) ==
  IF NextIs(self, is_control_letter)
  THEN Ret(TRUE, advance(SetInt(self, Code(Peeked(self)) % 32)))
  ELSE Ret(FALSE, self)

eat_c_control_letter(self) ==
  AndThen(eat(self, "c"), LAMBDA s :
    Bind(eat_control_letter(s), LAMBDA l :
      IF l.r THEN l ELSE Ret(FALSE, reset_to(l.s, self.pos))))

eat_zero(self) ==
  IF current(self) = Some("0") THEN Ret(TRUE, advance(SetInt(self, 0)))
  ELSE Ret(FALSE, self)

eat_hex_escape_sequence(self) ==
  AndThen(eat(self, "x"), LAMBDA s :
    Bind(eat_fixed_hex_digits(s, 2), LAMBDA h :
      IF h.r THEN h
      ELSE IF h.s.u THEN Fail(h.s, self.pos, "Invalid escape")
      ELSE Ret(FALSE, reset_to(h.s, self.pos))))

eat_syntax_character(self) ==
  IF NextIs(self, is_syntax_ch)
  THEN Ret(TRUE, advance(SetInt(self, Code(Peeked(self)))))
  ELSE Ret(FALSE, self)

eat_identity_escape(self) ==
  IF self.u
  THEN OrElse(eat_syntax_character(self), LAMBDA s :
         Bind(eat(s, "/"), LAMBDA sl :
           IF sl.r THEN Ret(TRUE, SetInt(sl.s, 47)) ELSE Ret(FALSE, sl.s)))
  ELSE IF IsSome(current(self))
  THEN IF Peeked(self) # "c" /\ (~self.n \/ Peeked(self) # "k")
       THEN Ret(TRUE, advance(SetInt(self, Code(Peeked(self)))))
       ELSE Ret(FALSE, self)
  ELSE Ret(TRUE, self)

LeadLo == 55296
LeadHi == 56319
TailLo == 56320
TailHi == 57343
MaxScalar == 1114111

\* eat_trail_surrogate without `self.reset_to(lead_end)`: a faulty variant,
\* which leaves the cursor behind whatever it has read after the lead
eat_trail_surrogate_without_reset(h) ==
  Bind(AndThen(AndThen(eat(h, "\\"), LAMBDA s : eat(s, "u")),
               LAMBDA s : eat_fixed_hex_digits(s, 4)),
       LAMBDA t :
         IF /\ t.r
            /\ UnwrapOr(t.s.last_int_value, 0) >= TailLo
            /\ UnwrapOr(t.s.last_int_value, 0) <= TailHi
         THEN Ret(TRUE, SetInt(t.s, (UnwrapOr(h.last_int_value, 0) - LeadLo) * 1024
                                      + (UnwrapOr(t.s.last_int_value, 0) - TailLo)
                                      + 65536))
         ELSE Ret(TRUE, SetInt(t.s, UnwrapOr(h.last_int_value, 0))))

\* eat_unicode_escape_sequence once the four digits of a lead surrogate are
\* read in Unicode mode (h: the parser then)
eat_trail_surrogate(h) ==
  Bind(AndThen(AndThen(eat(h, "\\"), LAMBDA s : eat(s, "u")),
               LAMBDA s : eat_fixed_hex_digits(s, 4)),
       LAMBDA t :
         IF /\ t.r
            /\ UnwrapOr(t.s.last_int_value, 0) >= TailLo
            /\ UnwrapOr(t.s.last_int_value, 0) <= TailHi
         THEN Ret(TRUE, SetInt(t.s, (UnwrapOr(h.last_int_value, 0) - LeadLo) * 1024
                                      + (UnwrapOr(t.s.last_int_value, 0) - TailLo)
                                      + 65536))
         ELSE Ret(TRUE, SetInt(reset_to(t.s, h.pos), UnwrapOr(h.last_int_value, 0))))

\* eat_unicode_escape_sequence from `if self.state.u && self.eat('{') ..` on
eat_braced_code_point(self, start) ==
  Bind(IF self.u
       THEN AndThen(AndThen(eat(self, "{"), LAMBDA s : eat_digits(s, 16)),
                    LAMBDA s : eat(s, "}"))
       ELSE Ret(FALSE, self),
       LAMBDA b :
         IF b.r /\ (b.s.last_int_value = None
                    \/ ~ULt(MaxScalar, Unwrap(b.s.last_int_value)))
         THEN Ret(TRUE, b.s)
         ELSE IF b.s.u THEN Fail(b.s, b.s.pos, "Invalid unicode escape")
         ELSE Ret(FALSE, reset_to(b.s, start)))

eat_unicode_escape_sequence(self) ==
  AndThen(eat(self, "u"), LAMBDA s :
    Bind(eat_fixed_hex_digits(s, 4), LAMBDA h :
      IF h.r
      THEN IF /\ h.s.u
              /\ UnwrapOr(h.s.last_int_value, 0) >= LeadLo
              /\ UnwrapOr(h.s.last_int_value, 0) <= LeadHi
           THEN eat_trail_surrogate(h.s)
           ELSE Ret(TRUE, h.s)
      ELSE eat_braced_code_point(h.s, self.pos)))

\* eat_character_escape from `|| self.eat_hex_escape_sequence()?` on
eat_numeric_escape(self) ==
  OrElse(OrElse(eat_hex_escape_sequence(self), eat_unicode_escape_sequence),
         LAMBDA s : OrElse(IF ~s.u THEN eat_legacy_octal_escape_sequence(s)
                           ELSE Ret(FALSE, s),
                           eat_identity_escape))

eat_character_escape(self) ==
  OrElse(OrElse(OrElse(eat_control_escape(self), eat_c_control_letter), eat_zero),
         eat_numeric_escape)

----------------------------------------------------------------------------
(* Group names *)

\* The identifier tests on a code point.  unic_ucd_ident's ID_Start and
\* ID_Continue are taken on the characters of Char only.
is_id_start(n) ==
  \/ n >= 65 /\ n <= 90
  \/ n >= 97 /\ n <= 122
  \/ n = 36
  \/ n = 95
  \/ n = 233

is_id_continue(n) ==
  \/ n >= 65 /\ n <= 90
  \/ n >= 97 /\ n <= 122
  \/ n >= 48 /\ n <= 57
  \/ n = 36
  \/ n = 95
  \/ n = 233

\* std::char::from_u32(n).is_some()
from_u32_is_some(n) == n >= 0 /\ n <= MaxScalar /\ ~(n >= LeadLo /\ n <= TailHi)

\* eat_ident_start and eat_ident_part, which differ in the test only
eat_ident(self, Test(_)) ==
  IF current(self) = None THEN Ret(FALSE, self)
  ELSE Try(IF Peeked(self) = "\\" THEN eat_unicode_escape_sequence(advance(self))
           ELSE Ret(FALSE, advance(self)),
           LAMBDA esc :
             Bind(IF /\ esc.r
                     /\ IsSome(esc.s.last_int_value)
                     /\ from_u32_is_some(Unwrap(esc.s.last_int_value))
                  THEN Unwrap(esc.s.last_int_value)
                  ELSE Code(Peeked(self)),
                  LAMBDA ch : IF Test(ch) THEN Ret(TRUE, SetInt(esc.s, ch))
                              ELSE Ret(FALSE, reset_to(esc.s, self.pos))))

eat_ident_start(self) ==
  eat_ident([self EXCEPT !.last_string_value = None], is_id_start)

eat_ident_part(self) == eat_ident(self, is_id_continue)

RECURSIVE eat_ident_part_loop(_)
\* `while self.eat_ident_part()? {}`
eat_ident_part_loop(self) ==
  AndThen(eat_ident_part(self), eat_ident_part_loop)

eat_regex_identifier_name(self) ==
  AndThen(eat_ident_start([self EXCEPT !.last_string_value = None]), LAMBDA first :
    Try(eat_ident_part_loop(first), LAMBDA rest :
      Ret(TRUE, [rest.s EXCEPT !.last_string_value =
                   Some(Slice(rest.s.pattern, self.pos, rest.s.pos))])))

eat_group_name(self) ==
  AndThen(eat([self EXCEPT !.last_string_value = None], "<"), LAMBDA lt :
    Bind(AndThen(eat_regex_identifier_name(lt), LAMBDA s : eat(s, ">")), LAMBDA nm :
      IF Failed(nm) \/ nm.r THEN nm
      ELSE Fail(nm.s, nm.s.pos, "Invalid capture group name")))

eat_k_group_name(self) ==
  AndThen(eat(self, "k"), LAMBDA k :
    Try(eat_group_name(k), LAMBDA g :
      IF g.r /\ IsSome(g.s.last_string_value)
      THEN Ret(TRUE, [g.s EXCEPT !.back_ref_names =
                        Append(@, Unwrap(g.s.last_string_value))])
      ELSE Fail(g.s, g.s.pos, "Invalid named reference")))

----------------------------------------------------------------------------
(* Character classes *)

eat_class_control_letter(self) ==
  IF NextIs(self, LAMBDA ch : is_digit(ch, 10) \/ ch = "_")
  THEN Ret(TRUE, advance(SetInt(self, Code(Peeked(self)) % 32)))
  ELSE Ret(FALSE, self)

\* eat_class_escape from `if self.state.u && self.eat('c')` on
eat_class_escape_tail(self) ==
  Bind(IF self.u
       THEN AndThen(eat(self, "c"), eat_class_control_letter)
       ELSE Ret(FALSE, self),
       LAMBDA c :
         IF c.r THEN c
         ELSE OrElse(eat_character_class_escape(reset_to(c.s, self.pos)),
                     eat_character_escape))

eat_class_escape(self) ==
  Bind(eat(self, "b"), LAMBDA b :
    IF b.r THEN Ret(TRUE, SetInt(b.s, 8))
    ELSE Bind(IF self.u THEN eat(self, "-") ELSE Ret(FALSE, self), LAMBDA dash :
           IF dash.r THEN Ret(TRUE, SetInt(dash.s, 45))
           ELSE eat_class_escape_tail(self)))

\* eat_class_atom from `if let Some(ch) = self.chars.peek()` on
eat_class_character(self) ==
  IF NextIs(self, LAMBDA ch : ch # "]")
  THEN Ret(TRUE, advance(SetInt(self, Code(Peeked(self)))))
  ELSE Ret(FALSE, self)

eat_class_atom(self) ==
  Bind(eat(self, "\\"), LAMBDA bs :
    IF bs.r
    THEN Bind(eat_class_escape(bs.s), LAMBDA esc :
           IF Failed(esc) \/ esc.r THEN esc
           ELSE IF esc.s.u /\ IsSome(current(esc.s))
           THEN IF Peeked(esc.s) = "c" \/ is_digit(Peeked(esc.s), 8)
                THEN Fail(esc.s, esc.s.pos, "Invalid class escape")
                ELSE Fail(esc.s, esc.s.pos, "Invalid escape")
           ELSE eat_class_character(reset_to(esc.s, self.pos)))
    ELSE eat_class_character(self))

RECURSIVE class_ranges(_)

\* class_range without the two tests of the range: a faulty variant, which
\* takes every pair of class atoms for a range
class_range_without_order_test(a) ==
  Bind(AndThen(eat(a, "-"), eat_class_atom), LAMBDA b :
    IF Failed(b) THEN b ELSE class_ranges(b.s))

\* the body of the loop of class_ranges once the left atom is read
class_range(a) ==
  Bind(AndThen(eat(a, "-"), eat_class_atom), LAMBDA b :
    IF Failed(b) THEN b
    ELSE IF ~b.r THEN class_ranges(b.s)
    ELSE IF b.s.u /\ (a.last_int_value = None \/ b.s.last_int_value = None)
    THEN Fail(b.s, b.s.pos, "Invalid character class")
    ELSE IF /\ IsSome(a.last_int_value)
            /\ IsSome(b.s.last_int_value)
            /\ ULt(Unwrap(b.s.last_int_value), Unwrap(a.last_int_value))
    THEN Fail(b.s, b.s.pos, "Range out of order in character class")
    ELSE class_ranges(b.s))

\* Result<(), Error>: r is TRUE for Ok(())
class_ranges(self) ==
  Try(eat_class_atom(self), LAMBDA a :
    IF a.r THEN class_range(a.s) ELSE Ret(TRUE, a.s))

eat_character_class(self) ==
  AndThen(eat(self, "["), LAMBDA open :
    Try(class_ranges(eat(open, "^").s), LAMBDA ranges :
      Bind(eat(ranges.s, "]"), LAMBDA close :
        IF close.r THEN close
        ELSE Fail(close.s, close.s.pos, "Unterminated character class"))))

----------------------------------------------------------------------------
(* Quantifiers *)

\* eat_braced_quantifier when no well-formed quantifier was read
\* incomplete_quantifier without `self.reset_to(start)`: a faulty variant,
\* which leaves the cursor behind what it has read of the quantifier
incomplete_quantifier_without_reset(self, start, no_error) ==
  IF self.u /\ ~no_error THEN Fail(self, self.pos, "Incomplete quantifier")
  ELSE Ret(FALSE, self)

incomplete_quantifier(self, start, no_error) ==
  IF self.u /\ ~no_error THEN Fail(self, self.pos, "Incomplete quantifier")
  ELSE Ret(FALSE, reset_to(self, start))

\* eat_braced_quantifier once the digits of min are read (digits: the parser
\* then)
braced_quantifier_max(digits, start, no_error) ==
  Bind(AndThen(eat(digits, ","), LAMBDA s : eat_digits(s, 10)), LAMBDA second :
    Bind(eat(second.s, "}"), LAMBDA close :
      IF close.r
      THEN IF /\ second.r
              /\ IsSome(second.s.last_int_value)
              /\ IsSome(digits.last_int_value)
              /\ ULt(Unwrap(second.s.last_int_value), Unwrap(digits.last_int_value))
              /\ ~no_error
           THEN Fail(close.s, close.s.pos, "numbers out of order")
           ELSE Ret(TRUE, close.s)
      ELSE incomplete_quantifier(close.s, start, no_error)))

eat_braced_quantifier(self, no_error) ==
  AndThen(eat(self, "{"), LAMBDA open :
    Bind(eat_digits(open, 10), LAMBDA digits :
      IF digits.r THEN braced_quantifier_max(digits.s, self.pos, no_error)
      ELSE incomplete_quantifier(digits.s, self.pos, no_error)))

eat_quantifier_prefix(self, no_error) ==
  OrElse(OrElse(OrElse(
    eat(self, "*"),
    LAMBDA s : eat(s, "+")),
    LAMBDA s : eat(s, "?")),
    LAMBDA s : eat_braced_quantifier(s, no_error))

eat_quantifier(self, no_error) ==
  AndThen(eat_quantifier_prefix(self, no_error), LAMBDA s : Ret(TRUE, eat(s, "?").s))

eat_invalid_braced_quantifier(self) ==
  AndThen(eat_braced_quantifier(self, TRUE), LAMBDA s :
    Fail(s, s.pos, "Nothing to repeat"))

----------------------------------------------------------------------------
(* Atoms *)

eat_extended_pattern_character(self) ==
  IF NextIs(self, LAMBDA ch : /\ ch # "$"
                              /\ ~Between(ch, "(", "+")
                              /\ ch # "."
                              /\ ch # "?"
                              /\ ch # "["
                              /\ ch # "^"
                              /\ ch # "|")
  THEN Ret(TRUE, advance(self))
  ELSE Ret(FALSE, self)

eat_pattern_characters_loop(self) ==
  advance_while(self, LAMBDA next : ~is_syntax_ch(next))

eat_pattern_characters(self) ==
  Bind(eat_pattern_characters_loop(self), LAMBDA after :
    Ret(after.pos # self.pos, after))

\* eat_atom_escape from `|| self.eat_character_escape()?` on
eat_character_or_name_escape(self) ==
  OrElse(eat_character_escape(self),
         LAMBDA s : IF s.n THEN eat_k_group_name(s) ELSE Ret(FALSE, s))

\* no_atom_escape without `if self.state.u { .. }`: a faulty variant, which
\* returns no match in Unicode mode too
no_atom_escape_without_error(self) == Ret(FALSE, self)

\* eat_atom_escape when none of its escapes was there
no_atom_escape(self) ==
  IF self.u
  THEN IF current(self) = Some("c")
       THEN Fail(self, self.pos, "Invalid unicode escape")
       ELSE Fail(self, self.pos, "Invalid escape")
  ELSE Ret(FALSE, self)

eat_atom_escape(self) ==
  OrElse(OrElse(OrElse(eat_back_ref(self), eat_character_class_escape),
                eat_character_or_name_escape),
         no_atom_escape)

eat_reverse_solidus_atom_escape(self) ==
  IF NextIs(self, LAMBDA ch : ch = "\\")
  THEN OrElse(eat_atom_escape(advance(self)),
              LAMBDA s : Ret(FALSE, reset_to(s, self.pos)))
  ELSE Ret(FALSE, self)

\* Result<(), Error>: r is TRUE for Ok(())
\* group_specifier without `if self.state.group_names.contains(&name)`: a
\* faulty variant, which records a name whether or not it is new
group_specifier_without_duplicate_test(self) ==
  Bind(eat(self, "?"), LAMBDA q :
    IF q.r
    THEN Try(eat_group_name(q.s), LAMBDA g :
           IF g.r /\ IsSome(g.s.last_string_value)
           THEN Ret(TRUE, [g.s EXCEPT !.group_names =
                             Append(@, Unwrap(g.s.last_string_value))])
           ELSE Fail(g.s, g.s.pos, "Invalid group"))
    ELSE Ret(TRUE, q.s))

group_specifier(self) ==
  Bind(eat(self, "?"), LAMBDA q :
    IF q.r
    THEN Try(eat_group_name(q.s), LAMBDA g :
           IF g.r /\ IsSome(g.s.last_string_value)
           THEN IF Contains(g.s.group_names, Unwrap(g.s.last_string_value))
                THEN Fail(g.s, g.s.pos, "Duplicate capture group name")
                ELSE Ret(TRUE, [g.s EXCEPT !.group_names =
                                  Append(@, Unwrap(g.s.last_string_value))])
           ELSE Fail(g.s, g.s.pos, "Invalid group"))
    ELSE Ret(TRUE, q.s))

RECURSIVE disjunction(_)

\* `self.disjunction()?` once what stands before it in the group has
\* returned x: on Ok(true) the disjunction, else x
group_disjunction(x) == IF x.r THEN disjunction(x.s) ELSE x

\* eat_uncapturing_group from `if self.eat(')')` on, where d is what the
\* disjunction has returned
uncapturing_group_end(d, start) ==
  IF d.e THEN d
  ELSE IF eat(d.s, ")").r THEN eat(d.s, ")")
  ELSE Fail(d.s, start, "Unterminated group")

\* `self.eat('(')` and `self.eat('?') && self.eat(':')`
uncapturing_group_head(self) ==
  AndThen(AndThen(eat(self, "("), LAMBDA s : eat(s, "?")), LAMBDA s : eat(s, ":"))

eat_uncapturing_group(self) ==
  IF uncapturing_group_head(self).r
  THEN uncapturing_group_end(disjunction(uncapturing_group_head(self).s), self.pos)
  ELSE Ret(FALSE, reset_to(uncapturing_group_head(self).s, self.pos))

\* capturing_group_end without `self.state.num_capturing_parens += 1`: a
\* faulty variant, which closes the group and leaves the counter as it was
capturing_group_end_without_count(d) ==
  IF d.e THEN d
  ELSE IF eat(d.s, ")").r THEN eat(d.s, ")")
  ELSE Fail(d.s, d.s.pos, "Unterminated group")

\* eat_capturing_group from `if self.eat(')')` on, where d is what the
\* disjunction has returned
capturing_group_end(d) ==
  IF d.e THEN d
  ELSE IF eat(d.s, ")").r
  THEN Ret(TRUE, [eat(d.s, ")").s EXCEPT !.num_capturing_parens = @ + 1])
  ELSE Fail(d.s, d.s.pos, "Unterminated group")

eat_capturing_group(self) ==
  IF NextIs(self, LAMBDA ch : ch = "(")
  THEN capturing_group_end(group_disjunction(group_specifier(advance(self))))
  ELSE Ret(FALSE, self)

\* eat_assertion from `if !self.eat(')')` on, where d is what the disjunction
\* has returned
\* lookaround_end with `last_assert_is_quant = true`: a faulty variant, which
\* lets a quantifier follow a lookbehind as it may follow a lookahead
lookaround_end_quantifiable(d, look_behind) ==
  IF d.e THEN d
  ELSE IF ~eat(d.s, ")").r THEN Fail(d.s, d.s.pos, "Unterminated group")
  ELSE Ret(TRUE, [eat(d.s, ")").s EXCEPT !.last_assert_is_quant = TRUE])

lookaround_end(d, look_behind) ==
  IF d.e THEN d
  ELSE IF ~eat(d.s, ")").r THEN Fail(d.s, d.s.pos, "Unterminated group")
  ELSE Ret(TRUE, [eat(d.s, ")").s EXCEPT !.last_assert_is_quant = ~look_behind])

\* `self.eat('(') && self.eat('?')`, `let look_behind = self.eat('<')` and
\* `self.eat('=') || self.eat('!')`
lookaround_head(self) ==
  AndThen(AndThen(eat(self, "("), LAMBDA s : eat(s, "?")),
          LAMBDA s : OrElse(eat(eat(s, "<").s, "="),
                            LAMBDA t : eat(t, "!")))

\* eat_assertion from `if self.eat('(') && self.eat('?')` on
eat_lookaround(self, start) ==
  IF lookaround_head(self).r
  THEN lookaround_end(disjunction(lookaround_head(self).s),
                      eat(advance_by(self, 2), "<").r)
  ELSE Ret(FALSE, reset_to(self, start))

\* eat_assertion from `if self.eat('\\')` on
eat_boundary(self, start) ==
  Bind(eat(self, "\\"), LAMBDA bs :
    IF bs.r
    THEN Bind(OrElse(eat(bs.s, "B"), LAMBDA s : eat(s, "b")), LAMBDA bnd :
           IF bnd.r THEN bnd ELSE eat_lookaround(reset_to(bnd.s, start), start))
    ELSE eat_lookaround(bs.s, start))

eat_assertion(self) ==
  OrElse(OrElse(eat([self EXCEPT !.last_assert_is_quant = FALSE], "^"),
                LAMBDA s : eat(s, "$")),
         LAMBDA s : eat_boundary(s, self.pos))

\* eat_atom and eat_extended_atom from `|| self.eat_uncapturing_group()?` to
\* `|| self.eat_capturing_group()?`
eat_group(self) == OrElse(eat_uncapturing_group(self), eat_capturing_group)

\* eat_atom and eat_extended_atom from `|| self.eat_reverse_solidus_atom_escape()?`
\* to `|| self.eat_character_class()?`
eat_escape_or_class(self) ==
  OrElse(eat_reverse_solidus_atom_escape(self), eat_character_class)

eat_atom(self) ==
  OrElse(OrElse(OrElse(eat_pattern_characters(self), LAMBDA s : eat(s, ".")),
                eat_escape_or_class),
         eat_group)

\* eat_extended_atom from `|| self.eat_invalid_braced_quantifier()?` on
eat_extended_atom_rest(self) ==
  OrElse(eat_invalid_braced_quantifier(self), eat_extended_pattern_character)

eat_extended_atom(self) ==
  OrElse(OrElse(OrElse(eat(self, "."), eat_escape_or_class), eat_group),
         eat_extended_atom_rest)

\* after_assertion without `&& self.state.n` and its Err: a faulty variant,
\* which lets a quantifier follow a lookahead in every mode
after_assertion_without_error(self) ==
  Try(IF self.last_assert_is_quant THEN eat_quantifier(self, FALSE)
      ELSE Ret(FALSE, self),
      LAMBDA q : Ret(TRUE, q.s))

\* eat_term once eat_assertion has returned true
after_assertion(self) ==
  Try(IF self.last_assert_is_quant THEN eat_quantifier(self, FALSE)
      ELSE Ret(FALSE, self),
      LAMBDA q : IF q.r /\ q.s.n THEN Fail(q.s, q.s.pos, "Invalid quantifier")
                 ELSE Ret(TRUE, q.s))

eat_term(self) ==
  Try(eat_assertion(self), LAMBDA a :
    IF a.r THEN after_assertion(a.s)
    ELSE AndThen(IF a.s.u THEN eat_atom(a.s) ELSE eat_extended_atom(a.s),
                 LAMBDA atom : Try(eat_quantifier(atom, FALSE),
                                   LAMBDA q : Ret(TRUE, q.s))))

RECURSIVE alternative(_)
\* Result<(), Error>: r is TRUE for Ok(())
alternative(self) ==
  IF self.pos < self.len
  THEN Try(eat_term(self), LAMBDA t :
         IF t.r THEN alternative(t.s) ELSE Ret(TRUE, t.s))
  ELSE Ret(TRUE, self)

RECURSIVE alternatives(_)
\* `while self.eat('|') { self.alternative()?; }`
alternatives(self) ==
  Bind(eat(self, "|"), LAMBDA bar :
    IF bar.r THEN Try(alternative(bar.s), LAMBDA a : alternatives(a.s))
    ELSE Ret(TRUE, bar.s))

\* disjunction without `if self.eat_quantifier(true)? { return Err(..) }`: a
\* faulty variant, which stops at a quantifier with nothing before it
disjunction_without_repeat_test(self) ==
  Try(alternative(self), LAMBDA first :
    Try(alternatives(first.s), LAMBDA more :
      Bind(eat(more.s, "{"), LAMBDA brace :
        IF brace.r THEN Fail(brace.s, brace.s.pos, "lone quantifier brackets")
        ELSE Ret(TRUE, brace.s))))

disjunction(self) ==
  Try(alternative(self), LAMBDA first :
    Try(alternatives(first.s), LAMBDA more :
      Try(eat_quantifier(more.s, TRUE), LAMBDA q :
        IF q.r THEN Fail(q.s, q.s.pos, "Nothing to repeat")
        ELSE Bind(eat(q.s, "{"), LAMBDA brace :
               IF brace.r THEN Fail(brace.s, brace.s.pos, "lone quantifier brackets")
               ELSE Ret(TRUE, brace.s)))))

----------------------------------------------------------------------------
(* Pattern and validate *)

\* `for name in &self.state.back_ref_names { if !group_names.contains(name) ..`
AllDeclared(self) ==
  \A i \in 1..Len(self.back_ref_names) :
    Contains(self.group_names, self.back_ref_names[i])

\* pattern_entry without the reset: a faulty variant, which starts every
\* pass where the pass before has stopped
pattern_entry_without_reset(self) == self

\* the parser as pattern() hands it to disjunction()
pattern_entry(self) == IF self.pos > 0 THEN reset(self) ELSE self

\* check_references without `if self.state.max_back_refs > ..`: a faulty
\* variant, which counts no numeric back-reference
check_references_of_names_only(self) ==
  IF ~AllDeclared(self)
  THEN Fail(self, self.pos, "Invalid named capture referenced")
  ELSE Ret(TRUE, self)

\* pattern from `if self.state.max_back_refs > ..` on
check_references(self) ==
  IF ULt(self.num_capturing_parens, self.max_back_refs)
  THEN Fail(self, self.pos, "Invalid escape")
  ELSE IF ~AllDeclared(self)
  THEN Fail(self, self.pos, "Invalid named capture referenced")
  ELSE Ret(TRUE, self)

\* pattern without `if self.state.pos != self.state.len { .. }`: a faulty
\* variant, which lets leftover input through
pattern_without_leftover_test(self) ==
  Try(disjunction(pattern_entry(self)), LAMBDA d : check_references(d.s))

\* Result<(), Error>: r is TRUE for Ok(())
pattern(self) ==
  Try(disjunction(pattern_entry(self)), LAMBDA d :
    IF d.s.pos # d.s.len
    THEN Bind(eat(d.s, ")"), LAMBDA paren :
           IF paren.r THEN Fail(paren.s, paren.s.pos, "Unmatched )")
           ELSE Bind(OrElse(eat(paren.s, "]"), LAMBDA s : eat(s, "}")), LAMBDA bracket :
                  IF bracket.r
                  THEN Fail(bracket.s, bracket.s.pos, "Lone quantifier brackets")
                  ELSE check_references(bracket.s)))
    ELSE check_references(d.s))

\* needs_second_pass without `!self.state.n`: a faulty variant, which asks
\* for the second pass in Unicode mode too
needs_second_pass_in_every_mode(self) == self.group_names # <<>>

\* `if !self.state.n && !self.state.group_names.is_empty()`
needs_second_pass(self) == ~self.n /\ self.group_names # <<>>

----------------------------------------------------------------------------
(* RegExFlags and RegexParser::new *)

DefaultFlags ==
  [ case_insensitive |-> FALSE,
    multi_line |-> FALSE,
    dot_matches_new_line |-> FALSE,
    unicode |-> FALSE,
    global |-> FALSE,
    sticky |-> FALSE ]

\* add_flag without the tests `if self.global`, `if self.sticky`, ..: a
\* faulty variant, which takes a flag it has already seen
add_flag_without_duplicate_test(flags, c, pos) ==
  CASE c = "g" -> [flags |-> [flags EXCEPT !.global = TRUE], err |-> None]
    [] c = "i" -> [flags |-> [flags EXCEPT !.case_insensitive = TRUE], err |-> None]
    [] c = "m" -> [flags |-> [flags EXCEPT !.multi_line = TRUE], err |-> None]
    [] c = "s" -> [flags |-> [flags EXCEPT !.dot_matches_new_line = TRUE], err |-> None]
    [] c = "u" -> [flags |-> [flags EXCEPT !.unicode = TRUE], err |-> None]
    [] c = "y" -> [flags |-> [flags EXCEPT !.sticky = TRUE], err |-> None]
    [] OTHER -> [flags |-> flags, err |-> Some(Error(pos, "invalid flag"))]

\* Result<(), Error> on &mut self: the flags afterwards and the error, if any
add_flag(flags, c, pos) ==
  CASE c = "g" -> IF flags.global
                  THEN [flags |-> flags, err |-> Some(Error(pos, "duplicate g flag"))]
                  ELSE [flags |-> [flags EXCEPT !.global = TRUE], err |-> None]
    [] c = "i" -> IF flags.case_insensitive
                  THEN [flags |-> flags, err |-> Some(Error(pos, "duplicate i flag"))]
                  ELSE [flags |-> [flags EXCEPT !.case_insensitive = TRUE], err |-> None]
    [] c = "m" -> IF flags.multi_line
                  THEN [flags |-> flags, err |-> Some(Error(pos, "duplicate m flag"))]
                  ELSE [flags |-> [flags EXCEPT !.multi_line = TRUE], err |-> None]
    [] c = "s" -> IF flags.dot_matches_new_line
                  THEN [flags |-> flags, err |-> Some(Error(pos, "duplicate s flag"))]
                  ELSE [flags |-> [flags EXCEPT !.dot_matches_new_line = TRUE],
                        err |-> None]
    [] c = "u" -> IF flags.unicode
                  THEN [flags |-> flags, err |-> Some(Error(pos, "duplicate u flag"))]
                  ELSE [flags |-> [flags EXCEPT !.unicode = TRUE], err |-> None]
    [] c = "y" -> IF flags.sticky
                  THEN [flags |-> flags, err |-> Some(Error(pos, "duplicate y flag"))]
                  ELSE [flags |-> [flags EXCEPT !.sticky = TRUE], err |-> None]
    [] OTHER -> [flags |-> flags, err |-> Some(Error(pos, "invalid flag"))]

RECURSIVE add_flags(_, _, _, _)
\* `for (i, c) in flag_str.chars().enumerate() { flags.add_flag(c, pat_end_idx + i + 1)?; }`
add_flags(flags, flag_str, i, pat_end_idx) ==
  IF i >= Len(flag_str) THEN [flags |-> flags, err |-> None]
  ELSE Bind(add_flag(flags, flag_str[i + 1], pat_end_idx + i + 1), LAMBDA one :
         IF IsSome(one.err) THEN one
         ELSE add_flags(one.flags, flag_str, i + 1, pat_end_idx))

\* js.rfind('/') as a character index of js (0 when there is none)
rfind_slash(text) ==
  IF \E i \in 1..Len(text) : text[i] = "/"
  THEN CHOOSE i \in 1..Len(text) :
         text[i] = "/" /\ \A j \in (i + 1)..Len(text) : text[j] # "/"
  ELSE 0

\* new from `let pattern = ..` on; last: the character index of the last /
new_parser(text, last) ==
  Bind(add_flags(DefaultFlags, SubSeq(text, last + 1, Len(text)), 0,
                 str_len(SubSeq(text, 1, last - 1))),
       LAMBDA flags :
         IF IsSome(flags.err) THEN [parser |-> None, err |-> flags.err]
         ELSE [parser |-> Some(NewParser(SubSeq(text, 2, last - 1), flags.flags.unicode)),
               err |-> None])

\* Result<Self, Error>: the parser, or the error
new(text) ==
  IF text = <<>> \/ Head(text) # "/"
  THEN [parser |-> None,
        err |-> Some(Error(0, "regular expression literals must start with a /"))]
  ELSE IF rfind_slash(text) <= 1
  THEN [parser |-> None,
        err |-> Some(Error(0, "regular expression literals must have 2 /"))]
  ELSE new_parser(text, rfind_slash(text))

----------------------------------------------------------------------------
(* The literals the model runs the program on *)

MaxTokens == 3
MaxFlags == 3
MaxCalls == 2

RECURSIVE Concat(_)
Concat(ss) == IF ss = <<>> THEN <<>> ELSE Head(ss) \o Concat(Tail(ss))

\* the texts made of at most n of the tokens T
Texts(T, n) == {Concat(ts) : ts \in UNION {[1..k -> T] : k \in 0..n}}

Literal(body, flags) == <<"/">> \o body \o <<"/">> \o flags

\* literals of the tests of lib.rs
Corpus ==
  { Literal(<<"a", "s", "d", "f", "|", "f", "d", "s", "a">>, <<"g">>),
    Literal(<<"\\", "1">>, <<"u">>),
    Literal(<<".">>, <<"G">>),
    Literal(<<".", "(", "?", "<", "=", ".", ")", "?">>, <<>>),
    Literal(<<"{", "2", "}">>, <<>>),
    Literal(<<"\\", "M">>, <<"u">>),
    Literal(<<"*">>, <<>>),
    Literal(<<"\\", "p", "{", "j", "u", "n", "k", "=", "G", "r", "e", "e", "k", "}">>, <<"u">>),
    Literal(<<"\\", "p", "{", "G", "e", "n", "e", "r", "a", "l", "_", "C", "a", "t", "e", "g", "o", "r", "y", "=", "G", "e", "e", "k", "}">>, <<"u">>),
    Literal(<<"\\", "p", "{", "j", "u", "n", "k", "}">>, <<"u">>),
    Literal(<<"(", "?", "<", "x", ">", "a", ")", "|", "b">>, <<>>) }

Modes == {<<>>, <<"u">>}

\* the literals of both modes whose body is made of at most MaxTokens of T
Literals(T) == {Literal(b, f) : b \in Texts(T, MaxTokens), f \in Modes}

\* the syntax characters, one by one
GeneralTokens ==
  { <<"a">>, <<"(">>, <<")">>, <<"|">>, <<"*">>, <<"?">>, <<"[">>, <<"]">>,
    <<"{">>, <<"}">>, <<"\\">>, <<"1">>, <<"(", "?", "<", "x", ">">> }

\* quantifiers, the places they can stand in, and a production that leaves a number
QuantTokens ==
  { <<"a">>, <<"(">>, <<")">>, <<"|">>, <<"*">>, <<"+">>, <<"?">>, <<"{", "1", "}">>,
    <<"{", "1", ",", "}">>, <<"{", "1", ",", "2", "}">>,
    <<"{", "2", ",", "1", "}">>, <<"(", "a", ")">>, <<"\\", "1">> }

\* lookaround assertions and quantifiers
LookTokens ==
  { <<"(", "?", "<", "=">>, <<"(", "?", "<", "!">>, <<"(", "?", "=">>,
    <<"(", "?", "<", "=", "a", ")">>, <<"(", "?", "<", "!", "a", ")">>,
    <<"(">>, <<"a">>, <<")">>, <<"*">>, <<"?">>, <<"{", "2", "}">>, <<"|">> }

\* groups and numeric back-references
RefTokens ==
  { <<"(", "a", ")">>, <<"(">>, <<"(", "?", ":">>, <<")">>, <<"\\", "1">>,
    <<"\\", "2">>, <<"\\">>, <<"0">>, <<"1">>, <<"|">>, <<"a">> }

\* named groups and named back-references
NameTokens ==
  { <<"(", "?", "<", "a", ">", "x", ")">>,
    <<"(", "?", "<", "b", ">", "x", ")">>, <<"(", "?", "<", "a", ">">>,
    <<")">>, <<"\\", "k", "<", "a", ">">>, <<"\\", "k", "<", "b", ">">>,
    <<"|">>, <<"x">>, <<"(">> }

\* what stands between the braces of a property escape
PropTokens ==
  { <<"g", "c">>, <<"s", "c">>, <<"s", "c", "x">>, <<"S", "c", "r", "i", "p", "t">>,
    <<"S", "c", "r", "i", "p", "t", "_", "E", "x", "t", "e", "n", "s", "i", "o", "n", "s">>,
    <<"G", "e", "n", "e", "r", "a", "l", "_", "C", "a", "t", "e", "g", "o", "r", "y">>,
    <<"=">>, <<"L">>, <<"u">>, <<"G", "r", "e", "k">>, <<"A", "n", "y">> }

\* braces that open a quantifier and braces that do not
BraceTokens ==
  { <<"a">>, <<"{">>, <<"}">>, <<"1">>, <<",">>, <<"{", "1">>, <<"{", "1", ",">>,
    <<"{", "1", ",", "2">>, <<"(", "a", ")">>, <<"|">> }

\* escapes, and characters that make none
EscapeTokens ==
  { <<"\\">>, <<"M">>, <<"c">>, <<"d">>, <<"1">>, <<"k">>, <<"x">>, <<"u">>,
    <<"*">>, <<"a">>, <<"(", "a", ")">> }

\* character classes of plain characters, class shorthands and a property
ClassTokens ==
  { <<"[">>, <<"[", "^">>, <<"[", "a", "-">>, <<"[", "b", "-">>,
    <<"[", "\\", "d", "-">>, <<"a">>, <<"b">>, <<"-">>, <<"]">>,
    <<"\\", "d">>, <<"\\", "S">>, <<"\\", "p", "{", "L", "}">> }

\* lookaheads, and what can stand in and behind them
AheadTokens ==
  { <<"(", "?", "=">>, <<"(", "?", "!">>, <<"(", "?", "=", "a", ")">>,
    <<"(", "?", "!", "a", ")">>, <<"(">>, <<"a">>, <<")">>, <<"*">>, <<"+">>,
    <<"?">>, <<"{", "2", "}">>, <<"{", "2", ",", "}">>, <<"|">> }

\* \uHHHH escapes of lead surrogates, of trail surrogates and of neither
SurrogateTokens ==
  { <<"\\", "u", "D", "8", "3", "D">>,
    <<"\\", "u", "D", "E", "0", "0">>,
    <<"\\", "u", "D", "8", "0", "0">>,
    <<"\\", "u", "D", "B", "F", "F">>,
    <<"\\", "u", "D", "C", "0", "0">>,
    <<"\\", "u", "D", "F", "F", "F">>,
    <<"\\", "u", "D", "7", "F", "F">>,
    <<"\\", "u", "E", "0", "0", "0">>,
    <<"\\", "u", "0", "0", "4", "1">>,
    <<"a">>,
    <<"\\", "u", "0", "0">> }

\* flag characters
FlagTokens ==
  { <<"g">>, <<"i">>, <<"m">>, <<"s">>, <<"u">>, <<"y">>, <<"G">>, <<"x">> }

\* \p{..} and \P{..} around every text of PropTokens
PropLiterals ==
  { Literal(<<"\\", p, "{">> \o b \o <<"}">>, f) :
      p \in {"p", "P"}, b \in Texts(PropTokens, MaxTokens), f \in Modes }

\* the pieces of well-formed and of ill-formed literals
ShapeTokens == { <<"/">>, <<"a">>, <<"u">>, <<"g">>, <<"/", "a">>, <<"a", "/">> }

\* the starts of escapes, groups and quantifiers, what completes them, what
\* does not, and a character of two bytes
FrameTokens ==
  { <<"\\">>, <<"\\", "u">>, <<"\\", "x">>, <<"\\", "c">>, <<"\\", "k">>,
    <<"(", "?">>, <<"{", "1">>, <<",">>, <<"0">>, <<"<">>, <<"a">>, <<"[">>,
    <<EAcute>> }

\* groups of every kind, open and closed
GroupTokens ==
  { <<"(">>, <<")">>, <<"(", "?", ":">>, <<"(", "?", "=">>, <<"(", "?", "<", "=">>,
    <<"(", "?", "<", "a", ">">>, <<"(", "a", ")">>, <<"a">>, <<"|">>, <<"\\">>,
    <<"*">> }

\* digit runs at, above and below the end of the u32 range, and what leaves
\* a number for the next run to build on
DigitTokens ==
  { <<"a">>, <<"(", "a", ")">>, <<"\\", "/">>,
    <<"{", "4", "2", "9", "4", "9", "6", "7", "2", "9", "5", "}">>,
    <<"{", "4", "2", "9", "4", "9", "6", "7", "2", "9", "6", "}">>,
    <<"{", "4", "2", "9", "4", "9", "6", "7", "2", "9", "7", ",", "1", "}">>,
    <<"{", "9", "9", "9", "9", "9", "9", "9", "9", "}">>,
    <<"\\", "4", "2", "9", "4", "9", "6", "7", "2", "9", "6">>,
    <<"\\", "u", "{", "1", "0", "0", "0", "0", "0", "0", "0", "0", "}">>,
    <<"\\", "u", "{", "1", "0", "F", "F", "F", "F", "}">> }

\* one body under every flag text
FlagLiterals == {Literal(<<"a">>, f) : f \in Texts(FlagTokens, MaxFlags)}

----------------------------------------------------------------------------
(* The state machine: new, then calls of validate *)

NoResult == [call |-> "none", err |-> None]

InitOn(literals) ==
  /\ js \in literals
  /\ parser = None
  /\ pc = "new"
  /\ result = NoResult
  /\ history = <<>>
  /\ passes = <<>>

Init == InitOn(Corpus \cup Literals(GeneralTokens))

InitQuant == InitOn(Corpus \cup Literals(QuantTokens))

InitLook == InitOn(Corpus \cup Literals(LookTokens))

InitRefs == InitOn(Corpus \cup Literals(RefTokens))

InitNames == InitOn(Corpus \cup Literals(NameTokens))

InitProp == InitOn(Corpus \cup PropLiterals)

InitFlags == InitOn(Corpus \cup FlagLiterals)

InitShape == InitOn(Corpus \cup Texts(ShapeTokens, MaxTokens))

InitFrame == InitOn(Corpus \cup Literals(FrameTokens))

InitBrace == InitOn(Corpus \cup Literals(BraceTokens))

InitEscape == InitOn(Corpus \cup Literals(EscapeTokens))

InitClass == InitOn(Corpus \cup Literals(ClassTokens))

InitAhead == InitOn(Corpus \cup Literals(AheadTokens))

InitSurrogate == InitOn(Corpus \cup Literals(SurrogateTokens))

InitGroup == InitOn(Corpus \cup Literals(GroupTokens))

InitDigits == InitOn(Corpus \cup Literals(DigitTokens))


New ==
  /\ pc = "new"
  /\ Bind(new(js), LAMBDA made :
       /\ parser' = made.parser
       /\ result' = [call |-> "new", err |-> made.err]
       /\ pc' = IF IsSome(made.err) THEN "failed" ELSE "ready")
  /\ UNCHANGED <<js, history, passes>>

\* pub fn validate: the parser afterwards and the state each pass ended in
validate(self) ==
  Bind(pattern(self), LAMBDA first :
    IF Failed(first) \/ ~needs_second_pass(first.s)
    THEN [s |-> first.s, passes |-> <<first.s>>]
    ELSE Bind(pattern(first.s), LAMBDA second :
           [s |-> second.s, passes |-> <<first.s, second.s>>]))

\* the unwinding of a panic: validate has not returned
Panic == [call |-> "panic", err |-> None]

\* a call of validate on the parser new returned.  The sums `radix *
\* last_int_value + n` of eat_digits, eat_fixed_hex_digits and
\* eat_decimal_escape are u32 sums: where one leaves the u32 range, a build
\* with overflow checks panics and a build without them goes on with the
\* value modulo 2^32.
Validate ==
  /\ pc = "ready"
  /\ Len(history) < MaxCalls
  /\ \E overflow_checks \in BOOLEAN :
       Bind(validate([Unwrap(parser) EXCEPT !.err = None, !.overflowed = FALSE]),
            LAMBDA v :
         IF overflow_checks /\ v.s.overflowed
         THEN /\ result' = Panic
              /\ pc' = "panicked"
              /\ UNCHANGED <<parser, passes, history>>
         ELSE /\ parser' = Some(v.s)
              /\ passes' = v.passes
              /\ result' = [call |-> "validate", err |-> v.s.err]
              /\ history' = Append(history, v.s.err)
              /\ pc' = pc)
  /\ UNCHANGED js

Next == New \/ Validate

Spec == Init /\ [][Next]_vars

SpecQuant == InitQuant /\ [][Next]_vars

SpecLook == InitLook /\ [][Next]_vars

SpecRefs == InitRefs /\ [][Next]_vars

SpecNames == InitNames /\ [][Next]_vars

SpecProp == InitProp /\ [][Next]_vars

SpecFlags == InitFlags /\ [][Next]_vars

SpecShape == InitShape /\ [][Next]_vars

SpecFrame == InitFrame /\ [][Next]_vars

SpecBrace == InitBrace /\ [][Next]_vars

SpecEscape == InitEscape /\ [][Next]_vars

SpecClass == InitClass /\ [][Next]_vars

SpecAhead == InitAhead /\ [][Next]_vars

SpecSurrogate == InitSurrogate /\ [][Next]_vars

SpecGroup == InitGroup /\ [][Next]_vars

SpecDigits == InitDigits /\ [][Next]_vars

----------------------------------------------------------------------------
(* Properties.  Each is stated on the literal js and on what the calls     *)
(* returned, so that the parser is judged by the text it was given.        *)

\* the last call to return was validate
Validated == result.call = "validate"

\* the pattern body and the mode of the parser that new returned
Body == Unwrap(parser).pattern

UnicodeMode == Unwrap(parser).u

\* the parser at the end of the final pattern() of the last validate
FinalPass == passes[Len(passes)]

\* the top-level Disjunction, run on the body from its start
TopLevel == disjunction(NewParser(Body, UnicodeMode))

\* input is left over after the top-level Disjunction
Leftover == ~Failed(TopLevel) /\ TopLevel.s.pos # TopLevel.s.len

\* C1: validate returns Ok only when the final pattern() pass ended with the
\* cursor at the end of the body (pos = len = the length of the body in
\* bytes), in both modes; and whenever the top-level Disjunction leaves
\* input over, validate returns Err.
C1_WholeBodyConsumed ==
  Validated =>
    /\ result.err = None =>
          /\ FinalPass.pos = FinalPass.len
          /\ FinalPass.len = str_len(Body)
          /\ FinalPass.chars = Len(Body)
    /\ Leftover => result.err # None

\* validate has returned Err on a body whose top-level Disjunction left
\* input over
C1_LeftoverRejected == Validated /\ Leftover /\ result.err # None

----------------------------------------------------------------------------
(* The text of a body, read character by character.  The bodies of the     *)
(* specifications below hold no character class, so that every character   *)
(* outside an escape stands for itself in the grammar.                     *)

\* how many "\\" stand in a row just before position i of t
BackslashesBefore(t, i) ==
  CHOOSE n \in 0..(i - 1) :
    /\ \A k \in 1..n : t[i - k] = "\\"
    /\ n = i - 1 \/ t[i - n - 1] # "\\"

\* position i of t is not the character a "\\" escapes
Unescaped(t, i) == BackslashesBefore(t, i) % 2 = 0

\* t holds the text w from position i on
Holds(t, i, w) == i >= 1 /\ i + Len(w) - 1 <= Len(t) /\ SubSeq(t, i, i + Len(w) - 1) = w

IsDecimal(c) == c \in {"0", "1", "2", "3", "4", "5", "6", "7", "8", "9"}

\* how many decimal digits stand in a row from position i of t on
DigitsFrom(t, i) ==
  CHOOSE n \in 0..(Len(t) - i + 1) :
    /\ \A k \in 0..(n - 1) : IsDecimal(t[i + k])
    /\ i + n > Len(t) \/ ~IsDecimal(t[i + n])

RECURSIVE DecimalAt(_, _, _)
\* the number the n digits of t from position i on write
DecimalAt(t, i, n) ==
  IF n = 0 THEN 0
  ELSE 10 * DecimalAt(t, i, n - 1) + (Code(t[i + n - 1]) - Code("0"))

\* the indices \N of the numeric back-references of t
BackRefs(t) ==
  { DecimalAt(t, i + 1, DigitsFrom(t, i + 1)) :
      i \in { j \in 1..(Len(t) - 1) :
                /\ t[j] = "\\" /\ Unescaped(t, j)
                /\ IsDecimal(t[j + 1]) /\ t[j + 1] # "0" } }

\* the positions of t where a capturing group opens: "(" with no "?" behind
\* it, or "(?<" that opens no lookbehind
GroupOpenings(t) ==
  { i \in 1..Len(t) :
      /\ t[i] = "(" /\ Unescaped(t, i)
      /\ \/ ~Holds(t, i + 1, <<"?">>)
         \/ /\ Holds(t, i + 1, <<"?", "<">>)
            /\ ~Holds(t, i + 3, <<"=">>)
            /\ ~Holds(t, i + 3, <<"!">>) }

\* C2: in Unicode mode validate returns Ok only if every numeric
\* back-reference \N of the body has N at most the number of capturing groups
\* of the whole body, wherever the groups stand; /\1/u fails with "Invalid
\* escape" and /(a)\1/u succeeds.
C2_BackRefsWithinGroups ==
  Validated =>
    /\ UnicodeMode /\ result.err = None =>
          \A n \in BackRefs(Body) : n <= Cardinality(GroupOpenings(Body))
    /\ js = <<"/", "\\", "1", "/", "u">> =>
          IsSome(result.err) /\ Unwrap(result.err).msg = "Invalid escape"
    /\ js = <<"/", "(", "a", ")", "\\", "1", "/", "u">> => result.err = None

\* validate has returned Ok in Unicode mode on a body that refers to a group
\* before the group opens
C2_ForwardReferenceAccepted ==
  /\ Validated /\ UnicodeMode /\ result.err = None
  /\ \E n \in BackRefs(Body) : n = Cardinality(GroupOpenings(Body))
  /\ Body[1] = "\\"

\* the first position from i on where t holds ">", or 0
ClosingAngle(t, i) ==
  IF \E k \in i..Len(t) : t[k] = ">"
  THEN CHOOSE k \in i..Len(t) : t[k] = ">" /\ \A j \in i..(k - 1) : t[j] # ">"
  ELSE 0

\* the name that starts at position i of t and ends before the next ">"
NameFrom(t, i) == SubSeq(t, i, ClosingAngle(t, i) - 1)

\* the names the groups (?<name> of t declare, by the position of the group
DeclarationsAt(t) ==
  { i \in GroupOpenings(t) : Holds(t, i + 1, <<"?", "<">>) /\ ClosingAngle(t, i + 3) > 0 }

DeclaredNames(t) == { NameFrom(t, i + 3) : i \in DeclarationsAt(t) }

\* the names the escapes \k<name> of t refer to
ReferencesAt(t) ==
  { i \in 1..Len(t) :
      /\ t[i] = "\\" /\ Unescaped(t, i)
      /\ Holds(t, i + 1, <<"k", "<">>) /\ ClosingAngle(t, i + 3) > 0 }

ReferencedNames(t) == { NameFrom(t, i + 3) : i \in ReferencesAt(t) }

\* C3: in Unicode mode, and in legacy mode when the body declares a named
\* group, validate rejects every body with a \k<name> whose name no group
\* (?<name> of the body declares, and raises "Invalid named capture
\* referenced" on no body whose references are all declared.
C3_NamedRefsDeclared ==
  Validated /\ (UnicodeMode \/ DeclaredNames(Body) # {}) =>
    /\ ~(ReferencedNames(Body) \subseteq DeclaredNames(Body)) => result.err # None
    /\ ReferencedNames(Body) \subseteq DeclaredNames(Body) =>
          \/ result.err = None
          \/ Unwrap(result.err).msg # "Invalid named capture referenced"

\* validate has returned Ok in legacy mode on a body that declares a named
\* group and refers to a name it does not declare
C3_UndeclaredReferenceAccepted ==
  /\ Validated /\ ~UnicodeMode /\ result.err = None
  /\ DeclaredNames(Body) # {}
  /\ ~(ReferencedNames(Body) \subseteq DeclaredNames(Body))

\* the length of the well-formed braced quantifier {n}, {n,} or {n,m} that
\* starts at position i of t, or 0
BracedLen(t, i) ==
  IF ~Holds(t, i, <<"{">>) \/ DigitsFrom(t, i + 1) = 0 THEN 0
  ELSE IF Holds(t, i + 1 + DigitsFrom(t, i + 1), <<"}">>)
  THEN DigitsFrom(t, i + 1) + 2
  ELSE IF /\ Holds(t, i + 1 + DigitsFrom(t, i + 1), <<",">>)
          /\ Holds(t, i + 2 + DigitsFrom(t, i + 1)
                         + DigitsFrom(t, i + 2 + DigitsFrom(t, i + 1)), <<"}">>)
  THEN DigitsFrom(t, i + 1) + DigitsFrom(t, i + 2 + DigitsFrom(t, i + 1)) + 3
  ELSE 0

\* the length of the quantifier (without a lazy mark) that starts at position
\* i of t, or 0
QuantifierLen(t, i) ==
  IF i > Len(t) THEN 0
  ELSE IF t[i] \in {"*", "+", "?"} THEN 1
  ELSE BracedLen(t, i)

\* the length of the group opening that starts at position i of t: one of
\* ( (?: (?= (?! (?<= (?<! (?<name>
OpeningLen(t, i) ==
  IF Holds(t, i, <<"(", "?", ":">>) \/ Holds(t, i, <<"(", "?", "=">>)
     \/ Holds(t, i, <<"(", "?", "!">>)
  THEN 3
  ELSE IF Holds(t, i, <<"(", "?", "<", "=">>) \/ Holds(t, i, <<"(", "?", "<", "!">>)
  THEN 4
  ELSE IF Holds(t, i, <<"(", "?", "<">>) /\ ClosingAngle(t, i + 3) > 0
  THEN ClosingAngle(t, i + 3) - i + 1
  ELSE 1

RECURSIVE Misplaced(_, _, _)
\* from position i of t on some quantifier stands where no atom comes just
\* before it; prev says what ends just before i: "start", "bar", "open",
\* "quantifier" (one that can still take its lazy mark), "lazy" or "atom"
Misplaced(t, i, prev) ==
  IF i > Len(t) THEN FALSE
  ELSE IF t[i] = "\\" THEN Misplaced(t, i + 2, "atom")
  ELSE IF QuantifierLen(t, i) > 0
  THEN IF prev = "atom" THEN Misplaced(t, i + QuantifierLen(t, i), "quantifier")
       ELSE IF prev = "quantifier" /\ t[i] = "?" THEN Misplaced(t, i + 1, "lazy")
       ELSE TRUE
  ELSE IF t[i] = "|" THEN Misplaced(t, i + 1, "bar")
  ELSE IF t[i] = "(" THEN Misplaced(t, i + OpeningLen(t, i), "open")
  ELSE Misplaced(t, i + 1, "atom")

\* C4: in both modes validate returns Err for every body in which a
\* quantifier (*, +, ?, {n}, {n,} or {n,m}) stands at the start, directly
\* after |, directly after the opening of a group, or directly after another
\* complete quantifier; /{2}/ and /*/ fail.
C4_MisplacedQuantifierRejected ==
  Validated =>
    /\ Misplaced(Body, 1, "start") => result.err # None
    /\ js \in {<<"/", "{", "2", "}", "/">>, <<"/", "*", "/">>} => result.err # None

\* validate has returned Err on a body that starts with an atom and holds
\* no | and no group, and in which a quantifier follows a complete quantifier
C4_QuantifierAfterQuantifier ==
  /\ Validated /\ result.err # None
  /\ Misplaced(Body, 1, "start")
  /\ Body[1] = "a"
  /\ \A k \in 1..Len(Body) : Body[k] \notin {"|", "("}

\* the unescaped "(" less the unescaped ")" of t from position i to j
Depth(t, i, j) ==
  Cardinality({k \in i..j : t[k] = "(" /\ Unescaped(t, k)})
    - Cardinality({k \in i..j : t[k] = ")" /\ Unescaped(t, k)})

\* the position of the ")" that closes the group opening at position i of t,
\* or 0 when the group is not closed
ClosingParen(t, i) ==
  IF \E j \in (i + 1)..Len(t) : Depth(t, i, j) = 0
  THEN CHOOSE j \in (i + 1)..Len(t) :
         Depth(t, i, j) = 0 /\ \A k \in (i + 1)..(j - 1) : Depth(t, i, k) # 0
  ELSE 0

\* the positions of t where a lookbehind opens that is closed and has a
\* quantifier directly behind its ")"
QuantifiedLookbehinds(t) ==
  { i \in 1..Len(t) :
      /\ Unescaped(t, i)
      /\ Holds(t, i, <<"(", "?", "<", "=">>) \/ Holds(t, i, <<"(", "?", "<", "!">>)
      /\ ClosingParen(t, i) > 0
      /\ QuantifierLen(t, ClosingParen(t, i) + 1) > 0 }

\* C5: in both modes validate returns Err for every body with a lookbehind
\* (?<=...) or (?<!...) that has a quantifier directly behind it: the error
\* is "Nothing to repeat", unless another error is raised before the parser
\* reaches the first such lookbehind; /.(?<=.)?/ fails with "Nothing to
\* repeat".
C5_QuantifiedLookbehindRejected ==
  Validated =>
    /\ QuantifiedLookbehinds(Body) # {} =>
          /\ IsSome(result.err)
          /\ \/ Unwrap(result.err).msg = "Nothing to repeat"
             \/ \A i \in QuantifiedLookbehinds(Body) : Unwrap(result.err).idx < i
    /\ js = <<"/", ".", "(", "?", "<", "=", ".", ")", "?", "/">> =>
          IsSome(result.err) /\ Unwrap(result.err).msg = "Nothing to repeat"

\* validate has returned "Nothing to repeat" on a body with a quantified
\* lookbehind that holds an atom and stands behind another term
C5_LookbehindNotRepeated ==
  /\ Validated /\ IsSome(result.err)
  /\ Unwrap(result.err).msg = "Nothing to repeat"
  /\ \E i \in QuantifiedLookbehinds(Body) : i > 1 /\ ClosingParen(Body, i) > i + 4

----------------------------------------------------------------------------
(* The flags of a literal, read from js *)

\* the text after the last / of js
FlagText == SubSeq(js, rfind_slash(js) + 1, Len(js))

\* the offset in js, in bytes, of the k-th character of the flag text
FlagOffset(k) == str_len(SubSeq(js, 1, rfind_slash(js) + k - 1))

FlagChars == {"g", "i", "m", "s", "u", "y"}

\* the places of the flag text that repeat a flag character of an earlier place
Repeats == { k \in 1..Len(FlagText) :
               FlagText[k] \in FlagChars /\ \E i \in 1..(k - 1) : FlagText[i] = FlagText[k] }

\* the places of the flag text that hold a character that is no flag
Strangers == { k \in 1..Len(FlagText) : FlagText[k] \notin FlagChars }

DuplicateMsg(c) ==
  CASE c = "g" -> "duplicate g flag"
    [] c = "i" -> "duplicate i flag"
    [] c = "m" -> "duplicate m flag"
    [] c = "s" -> "duplicate s flag"
    [] c = "u" -> "duplicate u flag"
    [] c = "y" -> "duplicate y flag"

\* new has returned Err
NewFailed == pc = "failed" /\ IsSome(result.err)

\* C6 as claimed: new fails on every flag text with a repeated flag
\* character, with a duplicate-flag error at the place of a repeated
\* occurrence, and on every flag text with a character outside g i m s u y,
\* with an invalid-flag error; it accepts every other flag text.
C6_FlagErrorsByKind ==
  pc # "new" =>
    /\ Repeats # {} =>
          /\ NewFailed
          /\ \E k \in Repeats :
                Unwrap(result.err) = Error(FlagOffset(k), DuplicateMsg(FlagText[k]))
    /\ Strangers # {} =>
          NewFailed /\ Unwrap(result.err).msg = "invalid flag"
    /\ Repeats = {} /\ Strangers = {} => pc = "ready"

\* the first place of the flag text that new cannot take
FirstOffence ==
  CHOOSE k \in Repeats \cup Strangers : \A j \in Repeats \cup Strangers : k <= j

\* C6, amended: new accepts the flag text exactly when no place of it repeats
\* a flag or holds a character outside g i m s u y; otherwise the first such
\* place alone decides the error, a duplicate-flag error for a repeat and an
\* invalid-flag error for a character that is no flag, with idx the offset of
\* that place in js.
C6_FirstOffenceDecides ==
  pc # "new" =>
    IF Repeats \cup Strangers = {} THEN pc = "ready"
    ELSE /\ NewFailed
         /\ Unwrap(result.err) =
              Error(FlagOffset(FirstOffence),
                    IF FirstOffence \in Repeats THEN DuplicateMsg(FlagText[FirstOffence])
                    ELSE "invalid flag")

\* new has returned Err on a flag text that holds both a repeated flag and a
\* character that is no flag
C6_RepeatAndStranger == NewFailed /\ Repeats # {} /\ Strangers # {}

----------------------------------------------------------------------------
(* Property escapes, read from the body *)

\* the body is one property escape \p{..} or \P{..} and nothing else
IsPropertyEscape ==
  /\ Len(Body) >= 4
  /\ Holds(Body, 1, <<"\\", "p", "{">>) \/ Holds(Body, 1, <<"\\", "P", "{">>)
  /\ Body[Len(Body)] = "}"
  /\ \A k \in 4..(Len(Body) - 1) : Body[k] \notin {"}", "\\"}

\* what stands between its braces
PropertyText == SubSeq(Body, 4, Len(Body) - 1)

Entries(table) == { table[k] : k \in 1..Len(table) }

CategoryNames ==
  { <<"G", "e", "n", "e", "r", "a", "l", "_", "C", "a", "t", "e", "g", "o", "r", "y">>,
    <<"g", "c">> }

ScriptNames ==
  { <<"S", "c", "r", "i", "p", "t">>, <<"s", "c">>,
    <<"S", "c", "r", "i", "p", "t", "_", "E", "x", "t", "e", "n", "s", "i", "o", "n", "s">>,
    <<"s", "c", "x">> }

\* Name=Value with a name and a value of the same table, or a lone value of
\* General_Category or of the binary properties
KnownProperties ==
  { n \o <<"=">> \o v : n \in CategoryNames, v \in Entries(GC) }
    \cup { n \o <<"=">> \o v : n \in ScriptNames, v \in Entries(SCRIPT) }
    \cup Entries(GC) \cup Entries(BINARY)

\* C7: in Unicode mode validate accepts a property escape \p{..} or \P{..}
\* if and only if what stands between the braces is Name=Value with Name one
\* of General_Category, gc and Value in the General_Category table, or Name
\* one of Script, sc, Script_Extensions, scx and Value in the Script table,
\* or a lone value of the General_Category or the Binary Property table;
\* /\p{junk}/u is rejected.
C7_PropertyEscapeByTables ==
  Validated /\ UnicodeMode =>
    /\ IsPropertyEscape => (result.err = None <=> PropertyText \in KnownProperties)
    /\ js = <<"/", "\\", "p", "{", "j", "u", "n", "k", "}", "/", "u">> => result.err # None

\* validate has accepted, in Unicode mode, a property escape Name=Value whose
\* name is one of the names of Script
C7_ScriptValueAccepted ==
  /\ Validated /\ UnicodeMode /\ IsPropertyEscape /\ result.err = None
  /\ \E n \in ScriptNames : Holds(PropertyText, 1, n \o <<"=">>)

----------------------------------------------------------------------------
(* Group names *)

\* state.group_names of the parser as the last validate left it
GroupNames == Unwrap(parser).group_names

\* no name stands twice in the sequence names
NoRepeat(names) ==
  \A i \in 1..Len(names) : \A k \in 1..Len(names) : names[i] = names[k] => i = k

\* C8: after validate has returned Ok, state.group_names holds exactly the
\* names the groups (?<name> of the body declare, each once, also when the
\* second pass has run; for /(?<x>a)|b/ validate returns Ok and group_names
\* holds the one name x.
C8_GroupNamesAreTheDeclaredNames ==
  Validated =>
    /\ result.err = None =>
          /\ { GroupNames[k] : k \in 1..Len(GroupNames) } = DeclaredNames(Body)
          /\ Len(GroupNames) = Cardinality(DeclaredNames(Body))
          /\ Len(GroupNames) = Cardinality(DeclarationsAt(Body))
    /\ js = <<"/", "(", "?", "<", "x", ">", "a", ")", "|", "b", "/">> =>
          result.err = None /\ GroupNames = << <<"x">> >>

\* validate has returned Ok after a second pass over a body that declares
\* two names
C8_TwoNamesAfterSecondPass ==
  /\ Validated /\ result.err = None
  /\ Len(passes) = 2
  /\ Cardinality(DeclaredNames(Body)) = 2

\* the positions of the groups of t that declare a name an earlier group of t
\* declares
RepeatedDeclarationsAt(t) ==
  { i \in DeclarationsAt(t) :
      \E k \in DeclarationsAt(t) : k < i /\ NameFrom(t, k + 3) = NameFrom(t, i + 3) }

\* C9: in both modes validate returns Err for every body in which two groups
\* declare the same name, nested, in two alternatives or one after the other:
\* the error is "Duplicate capture group name", unless another error is
\* raised before the parser reaches the second of them; and at the end of no
\* pass does state.group_names hold a name twice.
C9_DuplicateNamesRejected ==
  Validated =>
    /\ RepeatedDeclarationsAt(Body) # {} =>
          /\ IsSome(result.err)
          /\ \/ Unwrap(result.err).msg = "Duplicate capture group name"
             \/ \A i \in RepeatedDeclarationsAt(Body) : Unwrap(result.err).idx < i
    /\ NoRepeat(GroupNames)
    /\ \A k \in 1..Len(passes) : NoRepeat(passes[k].group_names)

\* validate has returned "Duplicate capture group name" on a body whose
\* second declaration of the name stands in another alternative
C9_DuplicateAcrossAlternatives ==
  /\ Validated /\ IsSome(result.err)
  /\ Unwrap(result.err).msg = "Duplicate capture group name"
  /\ \E i \in RepeatedDeclarationsAt(Body) : i > 1 /\ Body[i - 1] = "|"

----------------------------------------------------------------------------
(* Braced quantifiers with two bounds *)

\* the position in t of the "," of a braced quantifier that opens at i
CommaOf(t, i) == i + 1 + DigitsFrom(t, i + 1)

\* the positions of t where a braced quantifier {min,max} opens whose max is
\* less than its min, as decimal numbers
OutOfOrderAt(t) ==
  { i \in 1..Len(t) :
      /\ Unescaped(t, i) /\ BracedLen(t, i) > 0
      /\ Holds(t, CommaOf(t, i), <<",">>)
      /\ DigitsFrom(t, CommaOf(t, i) + 1) > 0
      /\ DecimalAt(t, CommaOf(t, i) + 1, DigitsFrom(t, CommaOf(t, i) + 1))
           < DecimalAt(t, i + 1, DigitsFrom(t, i + 1)) }

\* those of them that stand directly behind an atom (a pattern character, an
\* escape or a closed group), where eat_term calls eat_quantifier(false)
StrictOutOfOrderAt(t) ==
  { i \in OutOfOrderAt(t) :
      /\ i > 1
      /\ \/ t[i - 1] \in {"a", ")"} /\ Unescaped(t, i - 1)
         \/ ~Unescaped(t, i - 1) }

\* C10: in both modes, and whatever was parsed before it, a braced quantifier
\* {min,max} with max < min that follows an atom makes validate return Err
\* "numbers out of order" (unless another error is raised before the parser
\* reaches it); where no atom comes before it (the lenient call) no such
\* error is raised and the quantifier is reported as present, which makes it
\* "Nothing to repeat".
C10_OutOfOrderBoundsRejected ==
  Validated =>
    /\ StrictOutOfOrderAt(Body) # {} =>
          /\ IsSome(result.err)
          /\ \/ Unwrap(result.err).msg = "numbers out of order"
             \/ \A i \in StrictOutOfOrderAt(Body) : Unwrap(result.err).idx < i
    /\ 1 \in OutOfOrderAt(Body) =>
          IsSome(result.err) /\ Unwrap(result.err).msg = "Nothing to repeat"

\* validate has returned Ok on a body with a braced quantifier {min,max},
\* max < min, directly behind an atom
C10_OutOfOrderBoundsAccepted ==
  Validated /\ result.err = None /\ StrictOutOfOrderAt(Body) # {}

----------------------------------------------------------------------------
(* Braces that open no quantifier *)

\* the character at position i of t ends an atom: it is escaped (and is not
\* the p, P or u of an escape that goes on with a brace), or closes a group,
\* or is a character that stands for itself in both modes
EndsAtom(t, i) ==
  /\ i >= 1
  /\ \/ ~Unescaped(t, i) /\ t[i] \notin {"p", "P", "u"}
     \/ Unescaped(t, i) /\ t[i] = ")"
     \/ Unescaped(t, i) /\ (is_control_letter(t[i]) \/ IsDecimal(t[i]) \/ t[i] = ",")

\* the positions of t where a "{" stands directly behind an atom and opens
\* no well-formed {n}, {n,} or {n,m}
IncompleteAt(t) ==
  { i \in 1..Len(t) :
      t[i] = "{" /\ Unescaped(t, i) /\ BracedLen(t, i) = 0 /\ EndsAtom(t, i - 1) }

\* the legacy parser of the body with its cursor on position i
LegacyAt(i) == advance_by(NewParser(Body, FALSE), i - 1)

\* C11: where "{" follows an atom and opens no well-formed quantifier, in
\* Unicode mode validate returns Err "Incomplete quantifier" (unless another
\* error is raised before the parser reaches the brace); in legacy mode
\* eat_braced_quantifier returns no match with the cursor back on the "{",
\* eat_extended_pattern_character then eats the "{", and /a{/ and /a{1/ are
\* accepted.
C11_IncompleteQuantifier ==
  Validated =>
    /\ UnicodeMode /\ IncompleteAt(Body) # {} =>
          /\ IsSome(result.err)
          /\ \/ Unwrap(result.err).msg = "Incomplete quantifier"
             \/ \A i \in IncompleteAt(Body) : Unwrap(result.err).idx < i
    /\ ~UnicodeMode =>
          \A i \in IncompleteAt(Body) :
            /\ ~eat_braced_quantifier(LegacyAt(i), FALSE).r
            /\ ~Failed(eat_braced_quantifier(LegacyAt(i), FALSE))
            /\ eat_braced_quantifier(LegacyAt(i), FALSE).s.pos = LegacyAt(i).pos
            /\ eat_braced_quantifier(LegacyAt(i), FALSE).s.chars = LegacyAt(i).chars
            /\ eat_extended_pattern_character(
                  eat_braced_quantifier(LegacyAt(i), FALSE).s).r
            /\ eat_extended_pattern_character(
                  eat_braced_quantifier(LegacyAt(i), FALSE).s).s.chars = i
    /\ js \in {<<"/", "a", "{", "/">>, <<"/", "a", "{", "1", "/">>} => result.err = None

\* validate has accepted, in legacy mode, a body in which a "{" with digits
\* and a comma behind it opens no quantifier
C11_LegacyBraceIsLiteral ==
  /\ Validated /\ ~UnicodeMode /\ result.err = None
  /\ \E i \in IncompleteAt(Body) : Holds(Body, i, <<"{", "1", ",">>)

----------------------------------------------------------------------------
(* Escapes in atom position *)

\* the positions of t where a "\\" stands that no "\\" before it escapes
BackslashesAt(t) == { i \in 1..Len(t) : t[i] = "\\" /\ Unescaped(t, i) }

\* the Unicode-mode parser of the body with its cursor on position i
UnicodeAt(i) == advance_by(NewParser(Body, TRUE), i - 1)

IsHex(c) == IsSome(to_digit(c, 16))

\* the "\\" at position i of t starts, as far as its first characters tell,
\* one of the escapes of Unicode mode: a back-reference or \0, a class
\* shorthand, \p{ or \P{, a control escape, \cX, \xHH, \uHHHH or \u{, an
\* escaped syntax character or /, or \k<
StartsEscape(t, i) ==
  /\ i < Len(t)
  /\ \/ IsDecimal(t[i + 1])
     \/ t[i + 1] \in {"d", "D", "s", "S", "w", "W", "t", "n", "v", "f", "r", "/"}
     \/ is_syntax_ch(t[i + 1])
     \/ t[i + 1] \in {"p", "P"} /\ Holds(t, i + 2, <<"{">>)
     \/ t[i + 1] = "c" /\ i + 2 <= Len(t) /\ is_control_letter(t[i + 2])
     \/ t[i + 1] = "x" /\ i + 3 <= Len(t) /\ IsHex(t[i + 2]) /\ IsHex(t[i + 3])
     \/ t[i + 1] = "u" /\ Holds(t, i + 2, <<"{">>)
     \/ t[i + 1] = "u" /\ i + 5 <= Len(t) /\ \A k \in 2..5 : IsHex(t[i + k])
     \/ t[i + 1] = "k" /\ Holds(t, i + 2, <<"<">>)

\* C12: in Unicode mode eat_reverse_solidus_atom_escape on a backslash either
\* matches an escape and moves on or returns Err, never no match; validate
\* accepts no Unicode-mode body with a backslash that starts none of the
\* escapes, and /\M/u fails; in legacy mode the production returns no Err,
\* and where it returns no match the cursor is back on the backslash.
C12_NoSilentEscapeFallback ==
  Validated =>
    /\ \A i \in BackslashesAt(Body) :
          \/ Failed(eat_reverse_solidus_atom_escape(UnicodeAt(i)))
          \/ /\ eat_reverse_solidus_atom_escape(UnicodeAt(i)).r
             /\ eat_reverse_solidus_atom_escape(UnicodeAt(i)).s.chars > i
    /\ UnicodeMode /\ result.err = None =>
          \A i \in BackslashesAt(Body) : StartsEscape(Body, i)
    /\ js = <<"/", "\\", "M", "/", "u">> => result.err # None
    /\ \A i \in BackslashesAt(Body) :
          /\ ~Failed(eat_reverse_solidus_atom_escape(LegacyAt(i)))
          /\ ~eat_reverse_solidus_atom_escape(LegacyAt(i)).r =>
                /\ eat_reverse_solidus_atom_escape(LegacyAt(i)).s.pos = LegacyAt(i).pos
                /\ eat_reverse_solidus_atom_escape(LegacyAt(i)).s.chars = i - 1

\* validate has returned Err in Unicode mode for a backslash that starts no
\* escape, and at the same backslash the legacy production returns no match
\* with the cursor back on it
C12_UnknownEscapeRejected ==
  /\ Validated /\ UnicodeMode /\ IsSome(result.err)
  /\ Unwrap(result.err).msg \in {"Invalid escape", "Invalid unicode escape"}
  /\ \E i \in BackslashesAt(Body) :
        /\ ~StartsEscape(Body, i)
        /\ Unwrap(result.err).idx = i
        /\ ~eat_reverse_solidus_atom_escape(LegacyAt(i)).r
        /\ eat_reverse_solidus_atom_escape(LegacyAt(i)).s.chars = i - 1

----------------------------------------------------------------------------
(* Ranges of character classes *)

\* position i of t holds a class escape that leaves no value: a shorthand, or
\* in Unicode mode a property escape
Valueless(t, i, u) ==
  /\ t[i] = "\\" /\ i < Len(t)
  /\ \/ t[i + 1] \in {"d", "D", "s", "S", "w", "W"}
     \/ u /\ t[i + 1] \in {"p", "P"}

\* the position of the first "}" of t behind position i, 0 without one
ClosingBrace(t, i) ==
  IF \E k \in i + 1..Len(t) : t[k] = "}"
  THEN CHOOSE k \in i + 1..Len(t) : t[k] = "}" /\ \A j \in i + 1..k - 1 : t[j] # "}"
  ELSE 0

\* position i of t holds a class atom of a concrete value that the text
\* shows: a plain character, or in legacy mode \p or \P, which is the
\* identity escape of that letter there
Concrete(t, i, u) ==
  \/ t[i] # "\\"
  \/ ~u /\ i < Len(t) /\ t[i + 1] \in {"p", "P"}

\* the value of the concrete class atom at position i of t
ValueAt(t, i) == IF t[i] # "\\" THEN Code(t[i]) ELSE Code(t[i + 1])

\* the number of characters of the class atom at position i of t: 1 for a
\* plain character, 2 for a shorthand and for \p and \P in legacy mode, up
\* to the "}" for a property escape in Unicode mode, and 0 for any other
\* escape
ClassAtomLen(t, i, u) ==
  IF t[i] # "\\" THEN 1
  ELSE IF ~Valueless(t, i, u) THEN (IF Concrete(t, i, u) THEN 2 ELSE 0)
  ELSE IF t[i + 1] \notin {"p", "P"} THEN 2
  ELSE IF Holds(t, i + 2, <<"{">>) /\ ClosingBrace(t, i) # 0
  THEN ClosingBrace(t, i) - i + 1
  ELSE 0

RECURSIVE RangesFrom(_, _, _, _)

\* the ranges of t from position i on, each as the pair of the positions of
\* its two atoms; in tells whether position i is inside a class; the reading
\* ends where an escape stands that ClassAtomLen does not measure
RangesFrom(t, i, in, u) ==
  IF i > Len(t) THEN {}
  ELSE IF ~in
  THEN IF t[i] = "\\" THEN RangesFrom(t, i + 2, FALSE, u)
       ELSE IF t[i] # "[" THEN RangesFrom(t, i + 1, FALSE, u)
       ELSE IF Holds(t, i + 1, <<"^">>) THEN RangesFrom(t, i + 2, TRUE, u)
       ELSE RangesFrom(t, i + 1, TRUE, u)
  ELSE IF t[i] = "]" THEN RangesFrom(t, i + 1, FALSE, u)
  ELSE IF ClassAtomLen(t, i, u) = 0 THEN {}
  ELSE IF ~Holds(t, i + ClassAtomLen(t, i, u), <<"-">>)
  THEN RangesFrom(t, i + ClassAtomLen(t, i, u), TRUE, u)
  ELSE IF i + ClassAtomLen(t, i, u) + 1 > Len(t)
  THEN {}
  ELSE IF t[i + ClassAtomLen(t, i, u) + 1] = "]"
  THEN RangesFrom(t, i + ClassAtomLen(t, i, u) + 1, TRUE, u)
  ELSE IF ClassAtomLen(t, i + ClassAtomLen(t, i, u) + 1, u) = 0 THEN {}
  ELSE {<<i, i + ClassAtomLen(t, i, u) + 1>>}
         \cup RangesFrom(t, i + ClassAtomLen(t, i, u) + 1
                                + ClassAtomLen(t, i + ClassAtomLen(t, i, u) + 1, u),
                          TRUE, u)

Ranges == RangesFrom(Body, 1, FALSE, UnicodeMode)

\* the ranges of the body whose two atoms have concrete values, the left one
\* the greater
Disordered ==
  { g \in Ranges :
      /\ Concrete(Body, g[1], UnicodeMode) /\ Concrete(Body, g[2], UnicodeMode)
      /\ ValueAt(Body, g[1]) > ValueAt(Body, g[2]) }

\* the ranges of the body with an atom that leaves no value
Shorthanded ==
  { g \in Ranges :
      Valueless(Body, g[1], UnicodeMode) \/ Valueless(Body, g[2], UnicodeMode) }

\* C13: a range of two concrete values with the left one greater makes
\* validate return Err in both modes ("Range out of order in character
\* class", unless an error before the range); in Unicode mode a range with a
\* shorthand or property escape as an endpoint makes validate return Err
\* ("Invalid character class", unless an error before the range); in legacy
\* mode validate never returns "Invalid character class", returns "Range out
\* of order in character class" only for a range of two concrete values, and
\* accepts /[\d-a]/.
C13_ClassRanges ==
  Validated =>
    /\ \A g \in Disordered :
          /\ IsSome(result.err)
          /\ \/ Unwrap(result.err).msg = "Range out of order in character class"
             \/ Unwrap(result.err).idx < g[1]
    /\ UnicodeMode =>
          \A g \in Shorthanded :
            /\ IsSome(result.err)
            /\ \/ Unwrap(result.err).msg = "Invalid character class"
               \/ Unwrap(result.err).idx < g[1]
    /\ ~UnicodeMode /\ IsSome(result.err) =>
          /\ Unwrap(result.err).msg # "Invalid character class"
          /\ Unwrap(result.err).msg = "Range out of order in character class"
                => Disordered # {}
    /\ js = <<"/", "[", "\\", "d", "-", "a", "]", "/">> => result.err = None

\* validate has accepted a legacy body with a range that has a shorthand as
\* an endpoint
C13_LegacyShorthandRange ==
  /\ Validated /\ ~UnicodeMode /\ result.err = None
  /\ Shorthanded # {}

----------------------------------------------------------------------------
(* Quantifiers behind lookaheads *)

\* the positions of t where a lookahead opens that is closed and has a
\* quantifier directly behind its ")"
QuantifiedLookaheads(t) ==
  { i \in 1..Len(t) :
      /\ Unescaped(t, i)
      /\ Holds(t, i, <<"(", "?", "=">>) \/ Holds(t, i, <<"(", "?", "!">>)
      /\ ClosingParen(t, i) > 0
      /\ QuantifierLen(t, ClosingParen(t, i) + 1) > 0 }

\* the position of the last character of the quantifier behind the lookahead
\* that opens at position i of t, its lazy mark not counted
QuantifierEnd(t, i) == ClosingParen(t, i) + QuantifierLen(t, ClosingParen(t, i) + 1)

\* C14: in Unicode mode, where n is on, validate returns Err for every body
\* with a lookahead (?=...) or (?!...) that has a quantifier directly behind
\* it ("Invalid quantifier", unless an error before the ")" of the first
\* such lookahead); in legacy mode validate never returns "Invalid quantifier"
\* and eat_term, called on such a lookahead, either fails inside it or
\* matches with the quantifier consumed; /(?=a)*/ is accepted and /(?=a)*/u
\* is not.
C14_QuantifiedLookahead ==
  Validated =>
    /\ UnicodeMode => Unwrap(parser).n
    /\ UnicodeMode /\ QuantifiedLookaheads(Body) # {} =>
          /\ IsSome(result.err)
          /\ \/ Unwrap(result.err).msg = "Invalid quantifier"
             \/ \A i \in QuantifiedLookaheads(Body) :
                  Unwrap(result.err).idx < ClosingParen(Body, i)
    /\ ~UnicodeMode =>
          /\ ~Unwrap(parser).n
          /\ IsSome(result.err) => Unwrap(result.err).msg # "Invalid quantifier"
          /\ \A i \in QuantifiedLookaheads(Body) :
                IF Failed(eat_term(LegacyAt(i)))
                THEN Unwrap(eat_term(LegacyAt(i)).s.err).idx < ClosingParen(Body, i)
                ELSE /\ eat_term(LegacyAt(i)).r
                     /\ eat_term(LegacyAt(i)).s.chars >= QuantifierEnd(Body, i)
    /\ js = <<"/", "(", "?", "=", "a", ")", "*", "/">> => result.err = None
    /\ js = <<"/", "(", "?", "=", "a", ")", "*", "/", "u">> =>
          IsSome(result.err) /\ Unwrap(result.err).msg = "Invalid quantifier"

\* validate has accepted a legacy body with a quantified lookahead that holds
\* an atom and stands behind another term
C14_LegacyLookaheadRepeated ==
  /\ Validated /\ ~UnicodeMode /\ result.err = None
  /\ \E i \in QuantifiedLookaheads(Body) : i > 1 /\ ClosingParen(Body, i) > i + 3

----------------------------------------------------------------------------
(* Surrogate pairs of \uHHHH escapes *)

UpperHex ==
  <<"0", "1", "2", "3", "4", "5", "6", "7", "8", "9", "A", "B", "C", "D", "E", "F">>

LowerHex ==
  <<"0", "1", "2", "3", "4", "5", "6", "7", "8", "9", "a", "b", "c", "d", "e", "f">>

\* the value of the hexadecimal digit c, or -1
HexOf(c) ==
  IF \E k \in 1..16 : UpperHex[k] = c THEN (CHOOSE k \in 1..16 : UpperHex[k] = c) - 1
  ELSE IF \E k \in 1..16 : LowerHex[k] = c THEN (CHOOSE k \in 1..16 : LowerHex[k] = c) - 1
  ELSE -1

\* the value of the escape \uHHHH that starts at position i of t, or -1
EscapeAt(t, i) ==
  IF Holds(t, i, <<"\\", "u">>) /\ i + 5 <= Len(t)
     /\ \A k \in 2..5 : HexOf(t[i + k]) >= 0
  THEN 4096 * HexOf(t[i + 2]) + 256 * HexOf(t[i + 3]) + 16 * HexOf(t[i + 4])
         + HexOf(t[i + 5])
  ELSE -1

\* the positions of t where the escape of a lead surrogate starts
Leads(t) ==
  { i \in 1..Len(t) : Unescaped(t, i) /\ EscapeAt(t, i) \in LeadLo..LeadHi }

\* a trail surrogate follows the lead at position i of t
Paired(t, i) == EscapeAt(t, i + 6) \in TailLo..TailHi

\* the code point of the pair at position i of t
PairValue(t, i) ==
  (EscapeAt(t, i) - LeadLo) * 1024 + (EscapeAt(t, i + 6) - TailLo) + 65536

\* what eat_unicode_escape_sequence returns on the u behind the backslash at
\* position i of the body, in Unicode mode and in legacy mode
UnicodeRead(i) == eat_unicode_escape_sequence(UnicodeAt(i + 1))

LegacyRead(i) == eat_unicode_escape_sequence(LegacyAt(i + 1))

\* C15: on the \uHHHH of a lead surrogate L, eat_unicode_escape_sequence in
\* Unicode mode consumes both escapes and leaves (L - 0xD800) * 0x400 +
\* (T - 0xDC00) + 0x10000, a value of 0x10000..0x10FFFF, when the \uHHHH of a
\* trail surrogate T follows directly, and otherwise stops just behind the
\* first escape and leaves L; in legacy mode it always stops behind the
\* first escape and leaves L; validate leaves the same value when the body
\* ends there.
C15_SurrogatePairs ==
  Validated =>
    \A i \in Leads(Body) :
      /\ UnicodeRead(i).r /\ ~Failed(UnicodeRead(i))
      /\ IF Paired(Body, i)
         THEN /\ UnicodeRead(i).s.chars = i + 11
              /\ UnicodeRead(i).s.pos = str_len(SubSeq(Body, 1, i + 11))
              /\ UnicodeRead(i).s.last_int_value = Some(PairValue(Body, i))
              /\ PairValue(Body, i) \in 65536..MaxScalar
         ELSE /\ UnicodeRead(i).s.chars = i + 5
              /\ UnicodeRead(i).s.pos = str_len(SubSeq(Body, 1, i + 5))
              /\ UnicodeRead(i).s.last_int_value = Some(EscapeAt(Body, i))
      /\ LegacyRead(i).r /\ ~Failed(LegacyRead(i))
      /\ LegacyRead(i).s.chars = i + 5
      /\ LegacyRead(i).s.pos = str_len(SubSeq(Body, 1, i + 5))
      /\ LegacyRead(i).s.last_int_value = Some(EscapeAt(Body, i))
      /\ result.err = None /\ UnicodeMode /\ Paired(Body, i) /\ i + 11 = Len(Body)
            => FinalPass.last_int_value = Some(PairValue(Body, i))
      /\ result.err = None /\ i + 5 = Len(Body)
            => FinalPass.last_int_value = Some(EscapeAt(Body, i))

\* validate has accepted a Unicode-mode body that ends with a surrogate pair
\* behind another term and has left the code point of the pair
C15_PairCombined ==
  /\ Validated /\ UnicodeMode /\ result.err = None
  /\ \E i \in Leads(Body) :
        /\ i > 1 /\ Paired(Body, i) /\ i + 11 = Len(Body)
        /\ FinalPass.last_int_value = Some(PairValue(Body, i))
        /\ PairValue(Body, i) > 65536

----------------------------------------------------------------------------
(* The two passes of validate *)

\* the parser as the second pattern() of the last validate handed it to
\* disjunction()
SecondEntry == pattern_entry(passes[1])

\* C16: validate runs pattern() once or twice; it runs it a second time
\* exactly when the first pass returned Ok, the mode is not Unicode mode and
\* the first pass has declared a named group (the body declares one); the
\* second pass starts with pos = 0, the character cursor on the first
\* character, num_capturing_parens = 0, max_back_refs = 0 and group_names and
\* back_ref_names empty; and in every call the first pass runs on the parser
\* as the call found it and the second, if any, on the parser as the first
\* pass left it.
C16_SecondPass ==
  /\ [](Validated =>
          /\ Len(passes) \in {1, 2}
          /\ Len(passes) = 2 <=>
                /\ passes[1].err = None
                /\ ~UnicodeMode
                /\ passes[1].group_names # <<>>
          /\ passes[1].err = None /\ ~UnicodeMode =>
                (Len(passes) = 2 <=> DeclaredNames(Body) # {})
          /\ Len(passes) = 2 =>
                /\ SecondEntry.pos = 0
                /\ SecondEntry.chars = 0
                /\ current(SecondEntry) = Some(Body[1])
                /\ SecondEntry.num_capturing_parens = 0
                /\ SecondEntry.max_back_refs = 0
                /\ SecondEntry.group_names = <<>>
                /\ SecondEntry.back_ref_names = <<>>)
  /\ [][passes' # passes =>
          /\ pc = "ready"
          /\ passes'[1] = pattern([Unwrap(parser) EXCEPT !.err = None]).s
          /\ Len(passes') = 2 =>
                /\ passes'[2] = pattern(passes'[1]).s
                /\ parser' = Some(passes'[2])]_vars

\* validate has run the second pass on a legacy body, after a first pass that
\* left the cursor at the end and counted a capturing group
C16_SecondPassRan ==
  /\ Validated /\ ~UnicodeMode /\ Len(passes) = 2
  /\ passes[1].pos = Len(Body) /\ passes[1].pos > 0
  /\ passes[1].num_capturing_parens > 0
  /\ passes[2].err = None

----------------------------------------------------------------------------
(* Calling validate again *)

\* what validate returns on the parser that new makes of the same literal
FreshOutcome == validate(Unwrap(new(js).parser)).s.err

\* C17: every call of validate on the same parser returns what the first
\* call has returned, Ok or the Err of the same msg and idx, and so does
\* validate on a fresh parser made from the same literal.
C17_ValidateIdempotent ==
  Validated =>
    \A k \in 1..Len(history) :
      /\ history[k] = history[1]
      /\ history[k] = FreshOutcome
      /\ history[k] = result.err \/ k < Len(history)

\* validate has returned the same Err a second time, on a parser that the
\* first call left behind the start of the body with a group counted
C17_SecondCallSameError ==
  /\ Validated /\ Len(history) = 2
  /\ IsSome(history[2]) /\ history[2] = history[1]
  /\ Unwrap(parser).pos > 0
  /\ Unwrap(parser).num_capturing_parens > 0

----------------------------------------------------------------------------
(* The idx of an error *)

\* the length in bytes of the text between the first and the last / of js,
\* 0 when js has no such text
BodyBytes ==
  IF rfind_slash(js) > 1 THEN str_len(SubSeq(js, 2, rfind_slash(js) - 1)) ELSE 0

\* C18: the idx of every Err that new or validate returns is a byte offset
\* into the body: 0 <= idx <= the length of the body, flag errors included.
C18_ErrorIdxWithinBody ==
  result.call \in {"new", "validate"} /\ IsSome(result.err) =>
    Unwrap(result.err).idx \in 0..BodyBytes

\* new has returned a flag error whose idx is the offset of the flag in the
\* literal, behind the end of the body
C18_FlagErrorBeyondBody ==
  /\ result.call = "new" /\ IsSome(result.err)
  /\ \E k \in 1..Len(FlagText) : Unwrap(result.err).idx = FlagOffset(k)
  /\ Unwrap(result.err).idx > BodyBytes

----------------------------------------------------------------------------
(* The shape of a literal *)

\* the number of / in js
Slashes == Cardinality({i \in 1..Len(js) : js[i] = "/"})

\* C19: new followed by validate accepts a literal only if it starts with /,
\* holds at least two /, and has a body of at least one character between
\* the first and the last /; the body of the parser is the text between the
\* first and the last /, and Unicode mode is on exactly when the flags hold
\* a u.
C19_AcceptedLiteralShape ==
  Validated /\ result.err = None =>
    /\ js # <<>> /\ js[1] = "/"
    /\ Slashes >= 2
    /\ rfind_slash(js) > 2
    /\ Body = SubSeq(js, 2, rfind_slash(js) - 1)
    /\ UnicodeMode <=> \E k \in 1..Len(FlagText) : FlagText[k] = "u"

\* new and validate have accepted a literal with nothing between its first
\* and its last /
C19_EmptyBodyAccepted ==
  /\ Validated /\ result.err = None
  /\ js[1] = "/" /\ rfind_slash(js) = 2
  /\ Body = <<>>

----------------------------------------------------------------------------
(* Productions that do not match *)

\* parsers of the body in the mode of the literal, the cursor before any of
\* its characters, without and with a capturing group counted
PreStates ==
  { [advance_by(NewParser(Body, UnicodeMode), k) EXCEPT !.num_capturing_parens = g] :
      k \in 0..Len(Body), g \in {0, 1} }

\* what each eat_* production returns on the parser pre
Outcomes(pre) ==
  { eat_decimal_escape(pre), eat_back_ref(pre), eat_legacy_octal_escape_sequence(pre),
    eat_unicode_property_name(pre), eat_unicode_property_value(pre),
    eat_lone_unicode_property_name_or_value(pre),
    eat_unicode_property_value_expression(pre), eat_character_class_escape(pre),
    eat_control_escape(pre), eat_control_letter(pre), eat_c_control_letter(pre),
    eat_zero(pre), eat_hex_escape_sequence(pre), eat_syntax_character(pre),
    eat_identity_escape(pre), eat_unicode_escape_sequence(pre),
    eat_character_escape(pre), eat_ident_start(pre), eat_ident_part(pre),
    eat_regex_identifier_name(pre), eat_group_name(pre), eat_k_group_name(pre),
    eat_class_control_letter(pre), eat_class_escape(pre), eat_class_atom(pre),
    eat_character_class(pre), eat_invalid_braced_quantifier(pre),
    eat_extended_pattern_character(pre), eat_pattern_characters(pre),
    eat_atom_escape(pre), eat_reverse_solidus_atom_escape(pre),
    eat_uncapturing_group(pre), eat_capturing_group(pre), eat_assertion(pre),
    eat_atom(pre), eat_extended_atom(pre), eat_term(pre),
    eat_digits(pre, 10), eat_digits(pre, 16),
    eat_fixed_hex_digits(pre, 2), eat_fixed_hex_digits(pre, 4),
    eat_braced_quantifier(pre, FALSE), eat_braced_quantifier(pre, TRUE),
    eat_quantifier_prefix(pre, FALSE), eat_quantifier_prefix(pre, TRUE),
    eat_quantifier(pre, FALSE), eat_quantifier(pre, TRUE) }
    \cup { eat(pre, Body[k]) : k \in 1..Len(Body) }

\* the iterator of s yields the characters of the pattern from s.pos on
Synced(s) ==
  /\ s.chars \in 0..Len(s.pattern)
  /\ s.pos = str_len(SubSeq(s.pattern, 1, s.chars))

\* C20: every eat_* production that returns Ok(false) leaves pos and the
\* character cursor where they were at the call (eat_digit, which returns an
\* Option, when it returns None); after every production, and after reset_to
\* to the offset of any character, the iterator yields the characters of the
\* pattern from pos on.  The productions are run once the first validate
\* has returned.
C20_NoMatchRestoresCursor ==
  Validated /\ Len(history) = 1 =>
    \A pre \in PreStates :
      /\ \A x \in Outcomes(pre) :
            /\ ~Failed(x) /\ ~x.r => x.s.pos = pre.pos /\ x.s.chars = pre.chars
            /\ Synced(x.s)
      /\ \A radix \in {8, 10, 16} :
            /\ eat_digit(pre, radix).r = None =>
                  /\ eat_digit(pre, radix).s.pos = pre.pos
                  /\ eat_digit(pre, radix).s.chars = pre.chars
            /\ Synced(eat_digit(pre, radix).s)
      /\ \A k \in 0..Len(Body) :
            /\ Synced(reset_to(pre, str_len(SubSeq(Body, 1, k))))
            /\ reset_to(pre, str_len(SubSeq(Body, 1, k))).chars = k
            /\ current(reset_to(pre, str_len(SubSeq(Body, 1, k))))
                 = (IF k < Len(Body) THEN Some(Body[k + 1]) ELSE None)

\* behind a character of two bytes stands a c that no control letter
\* follows: eat_c_control_letter has eaten the c and returned no match
C20_ControlLetterGivenBack ==
  /\ Validated
  /\ \E pre \in PreStates :
        /\ pre.pos > pre.chars
        /\ current(pre) = Some("c")
        /\ ~eat_c_control_letter(pre).r
        /\ eat_c_control_letter(pre).s.chars = pre.chars

----------------------------------------------------------------------------
(* Progress of the productions *)

\* the production that returned x on the parser pre has advanced, has
\* returned no match, or has returned Err
Progress(x, pre) == Failed(x) \/ ~x.r \/ x.s.pos > pre.pos

\* what the productions that pick up behind a backslash return on pre
EscapeTails(pre) ==
  { eat_identity_escape(pre), eat_character_escape(pre), eat_atom_escape(pre),
    eat_class_escape(pre) }

\* the cursor of pre stands just behind a backslash
BehindBackslash(pre) == pre.chars > 0 /\ pre.pattern[pre.chars] = "\\"

\* C21: validate returns for every body: the cursor never passes the end of
\* the body, every eat_term that returns Ok(true) has advanced pos by at
\* least one character, and every eat_* production, on any position of the
\* body in the mode of the literal, either advances, returns no match or
\* returns Err (the productions that pick up behind a backslash: on any
\* position behind a backslash).  The productions are run once the first
\* validate has returned.
C21_EveryProductionAdvances ==
  Validated /\ Len(history) = 1 =>
    /\ \A k \in 1..Len(passes) : passes[k].pos <= passes[k].len
    /\ \A pre \in PreStates :
          /\ ~Failed(eat_term(pre)) /\ eat_term(pre).r => eat_term(pre).s.pos > pre.pos
          /\ \A x \in Outcomes(pre) \ EscapeTails(pre) : Progress(x, pre)
          /\ BehindBackslash(pre) => \A x \in EscapeTails(pre) : Progress(x, pre)

\* validate has accepted a legacy body that ends with a backslash: at the end
\* of the body eat_identity_escape has returned true without a character
\* to consume
C21_EscapeOfNothing ==
  /\ Validated /\ ~UnicodeMode /\ result.err = None
  /\ Body # <<>> /\ Body[Len(Body)] = "\\"
  /\ \E pre \in PreStates :
        /\ pre.pos = pre.len /\ BehindBackslash(pre)
        /\ eat_identity_escape(pre).r
        /\ eat_identity_escape(pre).s.pos = pre.pos

\* the capturing groups of t that open behind position a and whose ")"
\* stands at position n or before it
ClosedGroups(t, a, n) ==
  { i \in GroupOpenings(t) : i > a /\ ClosingParen(t, i) > 0 /\ ClosingParen(t, i) <= n }

\* the unescaped "(" of t that open no capturing group: (?: and lookarounds
OtherOpenings(t) ==
  { i \in 1..Len(t) : t[i] = "(" /\ Unescaped(t, i) /\ i \notin GroupOpenings(t) }

\* the counter and the two name lists of s are those of pre
SameGroupState(s, pre) ==
  /\ s.num_capturing_parens = pre.num_capturing_parens
  /\ s.group_names = pre.group_names
  /\ s.back_ref_names = pre.back_ref_names

\* C22: at the end of every pass num_capturing_parens is the number of
\* capturing groups, named or unnamed, whose ")" lies before the cursor,
\* (?:...) and lookarounds not counted; every production that returns without
\* an error, started before any character that no backslash escapes, has
\* raised the counter by the number of capturing groups that open and close
\* in what it consumed; and every production that returns with the cursor
\* where it was at the call has left the counter, group_names and
\* back_ref_names as they were.  The productions are run once the first
\* validate has returned.
C22_CounterCountsClosedGroups ==
  Validated =>
    /\ \A k \in 1..Len(passes) :
          passes[k].num_capturing_parens
            = Cardinality(ClosedGroups(Body, 0, passes[k].chars))
    /\ Len(history) = 1 =>
          \A pre \in PreStates :
            \A x \in Outcomes(pre) \cup {disjunction(pre), alternative(pre)} :
              /\ ~Failed(x) /\ Unescaped(Body, pre.chars + 1) =>
                    x.s.num_capturing_parens
                      = pre.num_capturing_parens
                          + Cardinality(ClosedGroups(Body, pre.chars, x.s.chars))
              /\ ~Failed(x) /\ x.s.pos <= pre.pos => SameGroupState(x.s, pre)

\* validate has accepted a body in which a group that does not capture
\* encloses a capturing group: the counter stands at one
C22_CountedInsideOtherGroup ==
  /\ Validated /\ result.err = None
  /\ FinalPass.num_capturing_parens = 1
  /\ \E i \in OtherOpenings(Body) :
        /\ ClosingParen(Body, i) = Len(Body)
        /\ \E j \in GroupOpenings(Body) : j > i /\ ClosingParen(Body, j) > 0

\* t ends with a backslash that no backslash before it escapes
EndsWithLoneBackslash(t) == t # <<>> /\ t[Len(t)] = "\\" /\ Unescaped(t, Len(t))

\* C23: validate returns Err for every body that ends with a lone backslash,
\* in Unicode mode and in legacy mode, at the top level and inside a
\* character class.
C23_LoneBackslashRejected ==
  Validated /\ EndsWithLoneBackslash(Body) => IsSome(result.err)

\* validate has returned Ok in legacy mode on a body without a character
\* class that ends with a lone backslash
C23_LegacyLoneBackslashAccepted ==
  /\ Validated /\ ~UnicodeMode /\ result.err = None
  /\ EndsWithLoneBackslash(Body)
  /\ \A k \in 1..Len(Body) : Body[k] # "["

\* C24: the sums of eat_digits (bounds of braced quantifiers and the code
\* points of \u{...}, on top of the last_int_value of the call) and of
\* eat_decimal_escape (\N) stay within the u32 range on every body:
\* validate never panics, and no pass of a validate that has returned has
\* gone on with a value modulo 2^32.
C24_DigitsWithinU32 ==
  /\ result # Panic
  /\ Validated => \A k \in 1..Len(passes) : ~passes[k].overflowed

\* validate has returned Ok on a body whose digits a u32 cannot hold: the
\* sum has wrapped around
C24_WrappedAndAccepted ==
  /\ Validated /\ result.err = None
  /\ FinalPass.overflowed
  /\ \E i \in 1..Len(Body) : DigitsFrom(Body, i) >= 10

\* validate has panicked on a body with no run of more than eight digits:
\* the digits of a quantifier were added to the code point of the escape
\* before it
C24_PanickedOnCarriedValue ==
  /\ result = Panic
  /\ \A i \in 1..Len(Body) : DigitsFrom(Body, i) <= 8

====
